---------------------------- MODULE Spec2Model ----------------------------
(*************************************************************************)
(* Model of the Vortex Go SDK client (client.go): Client construction,   *)
(* the token issuer Client.GenerateJWT and the invitation operations.    *)
(*                                                                       *)
(* Representation.  A Go string is a sequence of one-character strings,  *)
(* a []byte is a sequence of integers 0..255.  A Go map is a sequence of *)
(* <<key, value>> pairs with pairwise different keys; the position of a  *)
(* pair stands for the map's unspecified iteration order.                *)
(*************************************************************************)
EXTENDS Integers, Sequences, FiniteSets, TLC

(*************************************************************************)
(* Characters and bytes                                                  *)
(*************************************************************************)

\* The printable ASCII characters, code 32 (space) to 126 (~).  Code 96,
\* the grave accent, cannot be written in a string of this language: its
\* place is held by a string no modelled text contains.
Printable ==
 << " ", "!", "\"", "#", "$", "%", "&", "'", "(", ")", "*", "+", ",", "-",
    ".", "/", "0", "1", "2", "3", "4", "5", "6", "7", "8", "9", ":", ";",
    "<", "=", ">", "?", "@", "A", "B", "C", "D", "E", "F", "G", "H", "I",
    "J", "K", "L", "M", "N", "O", "P", "Q", "R", "S", "T", "U", "V", "W",
    "X", "Y", "Z", "[", "\\", "]", "^", "_", "<grave>", "a", "b", "c", "d", "e",
    "f", "g", "h", "i", "j", "k", "l", "m", "n", "o", "p", "q", "r", "s",
    "t", "u", "v", "w", "x", "y", "z", "{", "|", "}", "~" >>

\* The characters a modelled string may hold: printable ASCII, LF and CR.
Chars ==
  ({ Printable[i] : i \in 1..Len(Printable) } \ { "<grave>" })
    \cup { "\n", "\r" }

\* Code of a character, as []byte(s) yields it for ASCII text.
OrdTable ==
  [ c \in Chars |->
      IF c = "\n" THEN 10
      ELSE IF c = "\r" THEN 13
      ELSE 31 + (CHOOSE i \in 1..Len(Printable) : Printable[i] = c) ]

\* []byte(s): the bytes of a string.
Bytes(s) ==
  [ i \in 1..Len(s) |-> OrdTable[s[i]] ]

\* The sequences obtained by joining the sequences of a sequence.
RECURSIVE Concat(_)
Concat(ss) ==
  IF ss = << >> THEN << >> ELSE Head(ss) \o Concat(Tail(ss))

(*************************************************************************)
(* encoding/base64, RawURLEncoding (URL alphabet, no padding, not        *)
(* strict)                                                               *)
(*************************************************************************)

\* encodeURL: the 64 characters of the URL-safe alphabet, value 0 first.
encodeURL ==
 << "A", "B", "C", "D", "E", "F", "G", "H", "I", "J", "K", "L", "M", "N",
    "O", "P", "Q", "R", "S", "T", "U", "V", "W", "X", "Y", "Z", "a", "b",
    "c", "d", "e", "f", "g", "h", "i", "j", "k", "l", "m", "n", "o", "p",
    "q", "r", "s", "t", "u", "v", "w", "x", "y", "z", "0", "1", "2", "3",
    "4", "5", "6", "7", "8", "9", "-", "_" >>

\* decodeMap: value of an alphabet character, 255 for any other character.
decodeMap ==
  [ c \in Chars |->
      IF \E i \in 1..64 : encodeURL[i] = c
      THEN (CHOOSE i \in 1..64 : encodeURL[i] = c) - 1
      ELSE 255 ]

\* Byte i of b, 0 past its end.
ByteAt(b, i) == IF i <= Len(b) THEN b[i] ELSE 0

\* Encoding.EncodeToString without padding: every group of three bytes
\* gives four characters, a last group of one byte gives two characters
\* and a last group of two bytes gives three.  Character n belongs to
\* group (n - 1) \div 4.
EncodeToString(b) ==
  [ n \in 1..((Len(b) * 4 + 2) \div 3) |->
      LET g  == (n - 1) \div 4
          b1 == ByteAt(b, 3 * g + 1)
          b2 == ByteAt(b, 3 * g + 2)
          b3 == ByteAt(b, 3 * g + 3)
          r  == (n - 1) % 4
      IN  encodeURL[ 1 + ( IF r = 0 THEN b1 \div 4
                           ELSE IF r = 1 THEN (b1 % 4) * 16 + (b2 \div 16)
                           ELSE IF r = 2 THEN (b2 % 16) * 4 + (b3 \div 64)
                           ELSE b3 % 64 ) ] ]

\* The decoder skips every '\n' and '\r' of its input.
DropNewlines(s) ==
  SelectSeq(s, LAMBDA c : c \notin { "\n", "\r" })

\* The bytes of a sequence of 6-bit values: four values give three bytes,
\* a last group of two values gives one byte and of three values two; the
\* bits left over in such a last group are dropped without being checked.
DecodeQuanta(v) ==
  [ n \in 1..((Len(v) * 3) \div 4) |->
      LET g  == (n - 1) \div 3
          v1 == v[4 * g + 1]
          v2 == v[4 * g + 2]
          v3 == IF 4 * g + 3 <= Len(v) THEN v[4 * g + 3] ELSE 0
          v4 == IF 4 * g + 4 <= Len(v) THEN v[4 * g + 4] ELSE 0
          r  == (n - 1) % 3
      IN  IF r = 0 THEN v1 * 4 + (v2 \div 16)
          ELSE IF r = 1 THEN (v2 % 16) * 16 + (v3 \div 4)
          ELSE (v3 % 4) * 64 + v4 ]

\* Encoding.DecodeString.  Its documentation: "New line characters (\r and
\* \n) are ignored."  err is TRUE (CorruptInputError) when a character
\* other than '\n' and '\r' is outside the alphabet ('=' included, there is
\* no padding character) or when one character is left over after the
\* groups of four.
DecodeString(s) ==
  LET t == DropNewlines(s)
      v == [ i \in 1..Len(t) |-> decodeMap[t[i]] ]
  IN  IF (\E i \in 1..Len(v) : v[i] = 255) \/ Len(v) % 4 = 1
      THEN [ err |-> TRUE, bytes |-> << >> ]
      ELSE [ err |-> FALSE, bytes |-> DecodeQuanta(v) ]

(*************************************************************************)
(* strings, strconv, github.com/google/uuid                              *)
(*************************************************************************)

\* strings.Split(s, "."): the pieces of s between the separators; a string
\* without separator gives one piece, n separators give n + 1 pieces.
RECURSIVE Split(_)
Split(s) ==
  IF \A i \in 1..Len(s) : s[i] # "." THEN << s >>
  ELSE LET k == CHOOSE i \in 1..Len(s) :
                  s[i] = "." /\ \A j \in 1..(i - 1) : s[j] # "."
       IN  << SubSeq(s, 1, k - 1) >> \o Split(SubSeq(s, k + 1, Len(s)))

\* The decimal digits of a natural number (strconv.FormatInt, base 10).
RECURSIVE FormatNat(_)
FormatNat(n) ==
  IF n < 10 THEN << Printable[17 + n] >>
  ELSE FormatNat(n \div 10) \o << Printable[17 + (n % 10)] >>

\* strconv.FormatInt(n, 10), as encoding/json writes an int64.
FormatInt(n) ==
  IF n < 0 THEN << "-" >> \o FormatNat(0 - n) ELSE FormatNat(n)

\* The sixteen lower-case hexadecimal digits.
hextable ==
  << "0", "1", "2", "3", "4", "5", "6", "7",
     "8", "9", "a", "b", "c", "d", "e", "f" >>

\* hex.Encode: two digits per byte.
RECURSIVE HexEncode(_)
HexEncode(b) ==
  IF b = << >> THEN << >>
  ELSE << hextable[(Head(b) \div 16) + 1], hextable[(Head(b) % 16) + 1] >>
       \o HexEncode(Tail(b))

\* uuid.FromBytes: an error unless the slice holds exactly 16 bytes.
FromBytes(b) ==
  IF Len(b) # 16 THEN [ err |-> TRUE, uuid |-> << >> ]
  ELSE [ err |-> FALSE, uuid |-> b ]

\* UUID.String: xxxxxxxx-xxxx-xxxx-xxxx-xxxxxxxxxxxx.
UUIDString(u) ==
  HexEncode(SubSeq(u, 1, 4)) \o << "-" >> \o HexEncode(SubSeq(u, 5, 6))
    \o << "-" >> \o HexEncode(SubSeq(u, 7, 8)) \o << "-" >>
    \o HexEncode(SubSeq(u, 9, 10)) \o << "-" >>
    \o HexEncode(SubSeq(u, 11, 16))

(*************************************************************************)
(* crypto/sha256 and crypto/hmac                                         *)
(*                                                                       *)
(* SHA-256 itself is not computed.  Sum256 is a 32-byte digest built     *)
(* from four modular accumulators run over the input; DigestMix keeps    *)
(* every intermediate product below 2^31.  HMAC is the construction of   *)
(* RFC 2104 over that digest, with the 64-byte block of SHA-256.         *)
(*************************************************************************)

BlockSize == 64

DigestSize == 32

DigestModuli == << 65521, 65519, 65497, 65479 >>

DigestFactors == << 257, 263, 269, 271 >>

DigestSeeds == << 5381, 1021, 30011, 911 >>

DigestStep(a, k, x) ==
  (a * DigestFactors[k] + x + 1) % DigestModuli[k]

\* One input byte taken into the four accumulators; past the end of the
\* input (i > Len(b)) the accumulators stay as they are.
Absorb(acc, b, i) ==
  IF i > Len(b) THEN acc
  ELSE << DigestStep(acc[1], 1, b[i]), DigestStep(acc[2], 2, b[i]),
          DigestStep(acc[3], 3, b[i]), DigestStep(acc[4], 4, b[i]) >>

\* The input is taken in eight bytes at a time, from byte i on.
RECURSIVE DigestMix(_, _, _)
DigestMix(b, i, acc) ==
  IF acc[1] >= 0 /\ i > Len(b) THEN acc
  ELSE DigestMix(b, i + 8,
         Absorb(Absorb(Absorb(Absorb(Absorb(Absorb(Absorb(Absorb(
           acc, b, i), b, i + 1), b, i + 2), b, i + 3),
           b, i + 4), b, i + 5), b, i + 6), b, i + 7))

\* Byte n of the digest: the accumulators, low byte then high byte, taken
\* four times over, each time stepped once more with the input's length.
RECURSIVE DigestBytes(_, _, _)
DigestBytes(acc, n, round) ==
  IF round = 0 THEN << >>
  ELSE << acc[1] % 256, acc[1] \div 256, acc[2] % 256, acc[2] \div 256,
          acc[3] % 256, acc[3] \div 256, acc[4] % 256, acc[4] \div 256 >>
       \o DigestBytes(<< DigestStep(acc[1], 1, n % 256),
                         DigestStep(acc[2], 2, n % 256),
                         DigestStep(acc[3], 3, n % 256),
                         DigestStep(acc[4], 4, n % 256) >>, n, round - 1)

Sum256(b) ==
  DigestBytes(DigestMix(b, 1, DigestSeeds), Len(b), DigestSize \div 8)

\* Bitwise exclusive or of two bytes.
RECURSIVE XorBits(_, _, _)
XorBits(a, b, n) ==
  IF n = 0 THEN 0
  ELSE ((a + b) % 2) + 2 * XorBits(a \div 2, b \div 2, n - 1)

Xor(a, b) == XorBits(a, b, 8)

\* hmac.New(sha256.New, key); Write(msg); Sum(nil).  A key longer than
\* the block is hashed first, a shorter one is padded with zero bytes.
HMACSHA256(key, msg) ==
  LET k0   == IF Len(key) > BlockSize THEN Sum256(key) ELSE key
      kpad == [ i \in 1..BlockSize |-> IF i <= Len(k0) THEN k0[i] ELSE 0 ]
      ipad == [ i \in 1..BlockSize |-> Xor(kpad[i], 54) ]
      opad == [ i \in 1..BlockSize |-> Xor(kpad[i], 92) ]
  IN  Sum256(opad \o Sum256(ipad \o msg))

(*************************************************************************)
(* Go values held in a map[string]interface{}                            *)
(*************************************************************************)

\* A string value.
StringValue(s) == [ kind |-> "string", str |-> s, num |-> 0, list |-> << >> ]

\* An int64 value.
IntValue(n) == [ kind |-> "int64", str |-> << >>, num |-> n, list |-> << >> ]

\* A non-nil []string value.
StringsValue(l) ==
  [ kind |-> "[]string", str |-> << >>, num |-> 0, list |-> l ]

\* A channel: a value encoding/json has no encoding for.
ChanValue == [ kind |-> "chan", str |-> << >>, num |-> 0, list |-> << >> ]

\* The keys of a map, in the order its pairs are held.
Keys(m) == [ i \in 1..Len(m) |-> m[i][1] ]

KeySet(m) == { m[i][1] : i \in 1..Len(m) }

HasKey(m, k) == k \in KeySet(m)

\* m[k] for a key the map holds.
Lookup(m, k) == m[CHOOSE i \in 1..Len(m) : m[i][1] = k][2]

\* Mutant of MapAssign: the value of a key the map holds is kept.
MapAssignKeep(m, k, v) ==
  IF HasKey(m, k) THEN m ELSE Append(m, << k, v >>)

\* m[k] = v: the value of a key the map holds is replaced, a new key is
\* added.
MapAssign(m, k, v) ==
  IF HasKey(m, k)
  THEN [ i \in 1..Len(m) |-> IF m[i][1] = k THEN << k, v >> ELSE m[i] ]
  ELSE Append(m, << k, v >>)

(*************************************************************************)
(* encoding/json: Marshal                                                *)
(*************************************************************************)

\* a < b for Go strings: byte-wise lexicographic order.
StringLess(a, b) ==
  \E i \in 1..(Len(b)) :
    /\ \A j \in 1..(i - 1) : j <= Len(a) /\ a[j] = b[j]
    /\ \/ i > Len(a)
       \/ OrdTable[a[i]] < OrdTable[b[i]]

\* The strings of a set in increasing order.
RECURSIVE SortStrings(_)
SortStrings(S) ==
  IF S = {} THEN << >>
  ELSE LET least == CHOOSE a \in S : \A b \in S \ {a} : StringLess(a, b)
       IN  << least >> \o SortStrings(S \ {least})

\* One character of a JSON string literal.  Marshal escapes the quote, the
\* backslash, the control characters and, for HTML safety, < > and &.
EscapeChar(c) ==
  IF c = "\"" THEN << "\\", "\"" >>
  ELSE IF c = "\\" THEN << "\\", "\\" >>
  ELSE IF c = "\n" THEN << "\\", "n" >>
  ELSE IF c = "\r" THEN << "\\", "r" >>
  ELSE IF c = "<" THEN << "\\", "u", "0", "0", "3", "c" >>
  ELSE IF c = ">" THEN << "\\", "u", "0", "0", "3", "e" >>
  ELSE IF c = "&" THEN << "\\", "u", "0", "0", "2", "6" >>
  ELSE << c >>

\* A string as a JSON string literal.
Quote(s) ==
  << "\"" >> \o Concat([ i \in 1..Len(s) |-> EscapeChar(s[i]) ])
    \o << "\"" >>

\* The elements of a sequence of texts joined by commas.
RECURSIVE JoinComma(_)
JoinComma(ts) ==
  IF ts = << >> THEN << >>
  ELSE IF Len(ts) = 1 THEN ts[1]
  ELSE ts[1] \o << "," >> \o JoinComma(Tail(ts))

\* Mutant of Encodable: every value is taken to have an encoding.
EncodableAll(v) == v.kind \in { "string", "int64", "[]string", "chan" }

\* Whether Marshal can encode a value (UnsupportedTypeError otherwise).
Encodable(v) == v.kind # "chan"

\* Mutant of MarshalValue: the elements of a list are written last to
\* first.
MarshalValueReversed(v) ==
  IF v.kind = "string" THEN Quote(v.str)
  ELSE IF v.kind = "int64" THEN FormatInt(v.num)
  ELSE << "[" >>
       \o JoinComma([ i \in 1..Len(v.list) |->
                        Quote(v.list[Len(v.list) + 1 - i]) ])
       \o << "]" >>

\* The JSON text of an encodable value.
MarshalValue(v) ==
  IF v.kind = "string" THEN Quote(v.str)
  ELSE IF v.kind = "int64" THEN FormatInt(v.num)
  ELSE << "[" >>
       \o JoinComma([ i \in 1..Len(v.list) |-> Quote(v.list[i]) ])
       \o << "]" >>

\* Mutant of MarshalMap: the members are written in the order the map
\* holds them in.
MarshalMapUnsorted(m) ==
  IF \E i \in 1..Len(m) : ~Encodable(m[i][2])
  THEN [ err |-> TRUE, json |-> << >> ]
  ELSE [ err  |-> FALSE,
         json |-> << "{" >>
                  \o JoinComma([ i \in 1..Len(m) |->
                       Quote(m[i][1]) \o << ":" >>
                         \o MarshalValue(m[i][2]) ])
                  \o << "}" >> ]

\* json.Marshal of a map[string]interface{}: an object whose members are
\* written in the sorted order of the keys, whatever order the map holds
\* them in.
MarshalMap(m) ==
  IF \E i \in 1..Len(m) : ~Encodable(m[i][2])
  THEN [ err |-> TRUE, json |-> << >> ]
  ELSE LET ks == SortStrings(KeySet(m))
       IN  [ err  |-> FALSE,
             json |-> << "{" >>
                      \o JoinComma([ i \in 1..Len(ks) |->
                           Quote(ks[i]) \o << ":" >>
                             \o MarshalValue(Lookup(m, ks[i])) ])
                      \o << "}" >> ]

\* json.Marshal of a JWTHeader: the fields in the order of the struct,
\* under the names of their json tags; it cannot fail.
MarshalHeader(h) ==
  [ err  |-> FALSE,
    json |-> << "{" >>
             \o Quote(<< "i", "a", "t" >>) \o << ":" >> \o FormatInt(h.IAT)
             \o << "," >>
             \o Quote(<< "a", "l", "g" >>) \o << ":" >> \o Quote(h.Alg)
             \o << "," >>
             \o Quote(<< "t", "y", "p" >>) \o << ":" >> \o Quote(h.Typ)
             \o << "," >>
             \o Quote(<< "k", "i", "d" >>) \o << ":" >> \o Quote(h.Kid)
             \o << "}" >> ]

(*************************************************************************)
(* strings and net/url                                                   *)
(*************************************************************************)

\* strings.HasPrefix
HasPrefix(s, t) == Len(t) <= Len(s) /\ SubSeq(s, 1, Len(t)) = t

\* strings.IndexByte, counted from 1; 0 when c is not in s.
IndexByte(s, c) ==
  IF \A i \in 1..Len(s) : s[i] # c THEN 0
  ELSE CHOOSE i \in 1..Len(s) : s[i] = c /\ \A j \in 1..(i - 1) : s[j] # c

\* strings.LastIndexByte, counted from 1; 0 when c is not in s.
LastIndexByte(s, c) ==
  IF \A i \in 1..Len(s) : s[i] # c THEN 0
  ELSE CHOOSE i \in 1..Len(s) :
         s[i] = c /\ \A j \in (i + 1)..Len(s) : s[j] # c

\* strings.Cut(s, c): s around the first c, all of s before it when there
\* is none.
Cut(s, c) ==
  LET i == IndexByte(s, c)
  IN  IF i = 0 THEN [ before |-> s, after |-> << >>, found |-> FALSE ]
      ELSE [ before |-> SubSeq(s, 1, i - 1),
             after  |-> SubSeq(s, i + 1, Len(s)),
             found  |-> TRUE ]

Digits == { "0", "1", "2", "3", "4", "5", "6", "7", "8", "9" }

Letters ==
  { Printable[i] : i \in 34..59 } \cup { Printable[i] : i \in 66..91 }

\* ishex
ishex(c) ==
  c \in Digits \cup { "a", "b", "c", "d", "e", "f",
                      "A", "B", "C", "D", "E", "F" }

\* unhex: the value of a hexadecimal digit.
unhex(c) ==
  IF c \in Digits THEN OrdTable[c] - 48
  ELSE IF c \in { "a", "b", "c", "d", "e", "f" } THEN OrdTable[c] - 97 + 10
  ELSE OrdTable[c] - 65 + 10

\* upperhex
upperhex ==
  << "0", "1", "2", "3", "4", "5", "6", "7",
     "8", "9", "A", "B", "C", "D", "E", "F" >>

\* The character of a code.  The codes of the characters a modelled string
\* may hold are 10, 13 and 32..126 without 96; no modelled text has an
\* escape of another code.
CharOf(n) ==
  IF n = 10 THEN "\n" ELSE IF n = 13 THEN "\r" ELSE Printable[n - 31]

\* shouldEscape(c, mode) for the modes encodePath ("path"),
\* encodeQueryComponent ("query") and encodeFragment ("fragment").
shouldEscape(c, mode) ==
  IF c \in Letters \cup Digits THEN FALSE
  ELSE IF c \in { "-", "_", ".", "~" } THEN FALSE
  ELSE IF c \in { "$", "&", "+", ",", "/", ":", ";", "=", "?", "@" }
  THEN IF mode = "path" THEN c = "?"
       ELSE IF mode = "query" THEN TRUE
       ELSE FALSE
  ELSE IF mode = "fragment" /\ c \in { "!", "(", ")", "*" } THEN FALSE
  ELSE TRUE

\* escape(s, mode): every character that should be escaped becomes %XX, a
\* space of a query component becomes '+'.
escape(s, mode) ==
  Concat([ i \in 1..Len(s) |->
    IF ~shouldEscape(s[i], mode) THEN << s[i] >>
    ELSE IF s[i] = " " /\ mode = "query" THEN << "+" >>
    ELSE << "%", upperhex[(OrdTable[s[i]] \div 16) + 1],
            upperhex[(OrdTable[s[i]] % 16) + 1] >> ])

\* Whether every '%' of s starts an escape of two hexadecimal digits.
ValidEscapes(s) ==
  \A i \in 1..Len(s) :
    s[i] = "%" => /\ i + 2 <= Len(s)
                  /\ ishex(s[i + 1])
                  /\ ishex(s[i + 2])

\* The text of s from place i on with its escapes replaced by the
\* characters they stand for, '+' by a space in a query component.
RECURSIVE Unescaped(_, _, _)
Unescaped(s, i, mode) ==
  IF i > Len(s) THEN << >>
  ELSE IF s[i] = "%"
  THEN << CharOf(16 * unhex(s[i + 1]) + unhex(s[i + 2])) >>
       \o Unescaped(s, i + 3, mode)
  ELSE IF s[i] = "+" /\ mode = "query"
  THEN << " " >> \o Unescaped(s, i + 1, mode)
  ELSE << s[i] >> \o Unescaped(s, i + 1, mode)

\* unescape(s, mode): EscapeError when a '%' is not followed by two
\* hexadecimal digits.
unescape(s, mode) ==
  IF ~ValidEscapes(s) THEN [ err |-> TRUE, str |-> << >> ]
  ELSE [ err |-> FALSE, str |-> Unescaped(s, 1, mode) ]

\* QueryEscape
QueryEscape(s) == escape(s, "query")

\* stringContainsCTLByte: a byte below ' ' or the byte 0x7f.
stringContainsCTLByte(s) == \E i \in 1..Len(s) : OrdTable[s[i]] < 32

\* getScheme: the text before the first ':' when it is a letter followed
\* by letters, digits, '+', '-' and '.'; no scheme when another character
\* comes first; an error when the ':' is the first character.
getScheme(rawURL) ==
  LET stop == { i \in 1..Len(rawURL) :
                  \/ rawURL[i] \notin Letters \cup Digits \cup { "+", "-", "." }
                  \/ (i = 1 /\ rawURL[i] \notin Letters) }
      k    == IF stop = {} THEN 0
              ELSE CHOOSE i \in stop : \A j \in stop : i <= j
  IN  IF k = 0 \/ rawURL[k] # ":"
      THEN [ err |-> FALSE, scheme |-> << >>, rest |-> rawURL ]
      ELSE IF k = 1
      THEN [ err |-> TRUE, scheme |-> << >>, rest |-> << >> ]
      ELSE [ err |-> FALSE, scheme |-> SubSeq(rawURL, 1, k - 1),
             rest |-> SubSeq(rawURL, k + 1, Len(rawURL)) ]

\* strings.ToLower of ASCII text.
ToLower(s) ==
  [ i \in 1..Len(s) |->
      IF OrdTable[s[i]] \in 65..90 THEN CharOf(OrdTable[s[i]] + 32)
      ELSE s[i] ]

\* validOptionalPort: empty, or ':' followed by digits only.
validOptionalPort(port) ==
  \/ port = << >>
  \/ /\ port[1] = ":"
     /\ \A i \in 2..Len(port) : port[i] \in Digits

\* The characters a host may hold unescaped.
HostChars ==
  Letters \cup Digits
    \cup { "-", "_", ".", "~", "!", "$", "&", "'", "(", ")", "*", "+", ",",
           ";", "=", ":", "[", "]", "<", ">", "\"" }

\* parseHost: an opening '[' needs its ']', what follows the last ':' (the
\* ']' of a bracketed host) is a port, and the characters are those of a
\* host or escapes, of which only %25 may stand for a character below
\* 0x80.
parseHost(host) ==
  LET close == LastIndexByte(host, "]")
      colon == LastIndexByte(host, ":")
      bad   ==
        IF HasPrefix(host, << "[" >>)
        THEN \/ close = 0
             \/ ~validOptionalPort(SubSeq(host, close + 1, Len(host)))
        ELSE /\ colon # 0
             /\ ~validOptionalPort(SubSeq(host, colon, Len(host)))
  IN  IF \/ bad
         \/ ~ValidEscapes(host)
         \/ \E i \in 1..Len(host) :
              \/ host[i] \notin HostChars \cup { "%" }
              \/ /\ host[i] = "%"
                 /\ unhex(host[i + 1]) < 8
                 /\ SubSeq(host, i, i + 2) # << "%", "2", "5" >>
      THEN [ err |-> TRUE, host |-> << >> ]
      ELSE [ err |-> FALSE, host |-> Unescaped(host, 1, "host") ]

\* parseAuthority: the host is what follows the last '@'.  No modelled URL
\* has user information.
parseAuthority(authority) ==
  parseHost(SubSeq(authority, LastIndexByte(authority, "@") + 1,
                   Len(authority)))

\* A *url.URL; err tells that Parse returned an error instead.
NoURL ==
  [ err |-> TRUE, Scheme |-> << >>, Opaque |-> << >>, Host |-> << >>,
    Path |-> << >>, RawPath |-> << >>, ForceQuery |-> FALSE,
    RawQuery |-> << >>, Fragment |-> << >>, RawFragment |-> << >> ]

\* URL.setPath: Path is the unescaped text path of p, RawPath the text p
\* itself when it is not the default escaping of Path.
setPathTo(u, p, path) ==
  IF path.err THEN NoURL
  ELSE [ u EXCEPT !.Path = path.str,
                  !.RawPath = IF p = escape(path.str, "path")
                              THEN << >> ELSE p ]

setPath(u, p) == setPathTo(u, p, unescape(p, "path"))

\* URL.setFragment
setFragmentTo(u, f, frag) ==
  IF frag.err THEN NoURL
  ELSE [ u EXCEPT !.Fragment = frag.str,
                  !.RawFragment = IF f = escape(frag.str, "fragment")
                                  THEN << >> ELSE f ]

setFragment(u, f) == setFragmentTo(u, f, unescape(f, "fragment"))

\* Whether rest ends with its one and only '?': the URL has an empty
\* query and ForceQuery is set.
forceQuery(rest) ==
  /\ rest # << >>
  /\ rest[Len(rest)] = "?"
  /\ Cardinality({ i \in 1..Len(rest) : rest[i] = "?" }) = 1

\* The last part of parse: u is the URL with its scheme and query, rest
\* the text between them, auth the text after the "//" of rest and slash
\* the place of the first '/' of auth.
parseHierarchy(scheme, u, rest, auth, slash, host) ==
  IF ~HasPrefix(rest, << "/" >>) /\ scheme # << >>
  THEN [ u EXCEPT !.Opaque = rest ]
  ELSE IF /\ ~HasPrefix(rest, << "/" >>)
          /\ IndexByte(Cut(rest, "/").before, ":") # 0
  THEN NoURL
  ELSE IF /\ HasPrefix(rest, << "/", "/" >>)
          /\ (scheme # << >> \/ ~HasPrefix(rest, << "/", "/", "/" >>))
  THEN IF host.err THEN NoURL
       ELSE setPath([ u EXCEPT !.Host = host.host ],
                    IF slash = 0 THEN << >>
                    ELSE SubSeq(auth, slash, Len(auth)))
  ELSE setPath(u, rest)

\* The authority of rest is the text between its "//" and the next '/'.
parseRest(scheme, u, rest, auth, slash) ==
  parseHierarchy(scheme, u, rest, auth, slash,
                 parseAuthority(IF slash = 0 THEN auth
                                ELSE SubSeq(auth, 1, slash - 1)))

\* The middle part of parse: sch is what getScheme gave for rawURL, force
\* whether the URL ends with an empty query, cut the text after the scheme
\* around its first '?'.
parseQuery(rawURL, sch, force, cut, rest) ==
  IF stringContainsCTLByte(rawURL) THEN NoURL
  ELSE IF rawURL = << "*" >>
  THEN [ NoURL EXCEPT !.err = FALSE, !.Path = << "*" >> ]
  ELSE IF sch.err THEN NoURL
  ELSE parseRest(sch.scheme,
                 [ NoURL EXCEPT !.err = FALSE,
                                !.Scheme = ToLower(sch.scheme),
                                !.ForceQuery = force,
                                !.RawQuery = IF force THEN << >>
                                             ELSE cut.after ],
                 rest,
                 SubSeq(rest, 3, Len(rest)),
                 IndexByte(SubSeq(rest, 3, Len(rest)), "/"))

parseScheme(rawURL, sch, force, cut) ==
  parseQuery(rawURL, sch, force, cut,
             IF force THEN SubSeq(sch.rest, 1, Len(sch.rest) - 1)
             ELSE cut.before)

parseAfterScheme(rawURL, sch) ==
  parseScheme(rawURL, sch, forceQuery(sch.rest), Cut(sch.rest, "?"))

\* parse(rawURL, viaRequest = false): the URL without its fragment.
parse(rawURL) == parseAfterScheme(rawURL, getScheme(rawURL))

\* The URL u of the text before the first '#', with the fragment after it.
withFragment(u, fragment) ==
  IF u.err THEN NoURL
  ELSE IF fragment = << >> THEN u
  ELSE setFragment(u, fragment)

parseCut(cut) == withFragment(parse(cut.before), cut.after)

\* url.Parse: the fragment is what follows the first '#'.
Parse(rawURL) == parseCut(Cut(rawURL, "#"))

\* validEncoded(s, encodePath)
validEncoded(s) ==
  \A i \in 1..Len(s) :
    \/ s[i] \in { "!", "$", "&", "'", "(", ")", "*", "+", ",", ";", "=",
                  ":", "@", "[", "]", "%" }
    \/ ~shouldEscape(s[i], "path")

\* URL.EscapedPath: RawPath when it is a valid encoding of Path, the
\* default escaping of Path otherwise.
EscapedPath(u) ==
  IF /\ u.RawPath # << >>
     /\ validEncoded(u.RawPath)
     /\ ~unescape(u.RawPath, "path").err
     /\ unescape(u.RawPath, "path").str = u.Path
  THEN u.RawPath
  ELSE IF u.Path = << "*" >> THEN u.Path
  ELSE escape(u.Path, "path")

\* validEncoded(s, encodeFragment)
validEncodedFragment(s) ==
  \A i \in 1..Len(s) :
    \/ s[i] \in { "!", "$", "&", "'", "(", ")", "*", "+", ",", ";", "=",
                  ":", "@", "%" }
    \/ ~shouldEscape(s[i], "fragment")

\* URL.EscapedFragment
EscapedFragment(u) ==
  IF /\ u.RawFragment # << >>
     /\ validEncodedFragment(u.RawFragment)
     /\ ~unescape(u.RawFragment, "fragment").err
     /\ unescape(u.RawFragment, "fragment").str = u.Fragment
  THEN u.RawFragment
  ELSE escape(u.Fragment, "fragment")

\* The host as URL.String writes it: the characters outside HostChars
\* escaped.
escapeHost(host) ==
  Concat([ i \in 1..Len(host) |->
    IF host[i] \in HostChars THEN << host[i] >>
    ELSE << "%", upperhex[(OrdTable[host[i]] \div 16) + 1],
            upperhex[(OrdTable[host[i]] % 16) + 1] >> ])

\* URL.String
URLString(u) ==
  LET path == EscapedPath(u)
  IN  (IF u.Scheme # << >> THEN u.Scheme \o << ":" >> ELSE << >>)
      \o (IF u.Opaque # << >> THEN u.Opaque
          ELSE (IF (u.Scheme # << >> \/ u.Host # << >>)
                   /\ (u.Host # << >> \/ u.Path # << >>)
                THEN << "/", "/" >> \o escapeHost(u.Host)
                ELSE << >>)
               \o (IF path # << >> /\ path[1] # "/" /\ u.Host # << >>
                   THEN << "/" >> ELSE << >>)
               \o path)
      \o (IF u.ForceQuery \/ u.RawQuery # << >>
          THEN << "?" >> \o u.RawQuery ELSE << >>)
      \o (IF u.Fragment # << >>
          THEN << "#" >> \o EscapedFragment(u) ELSE << >>)

\* URL.RequestURI: what the request line holds after the method.
RequestURI(u) ==
  (IF u.Opaque # << >>
   THEN IF HasPrefix(u.Opaque, << "/", "/" >>)
        THEN u.Scheme \o << ":" >> \o u.Opaque ELSE u.Opaque
   ELSE IF EscapedPath(u) = << >> THEN << "/" >> ELSE EscapedPath(u))
  \o (IF u.ForceQuery \/ u.RawQuery # << >>
      THEN << "?" >> \o u.RawQuery ELSE << >>)

\* The pieces of s between the occurrences of c.
RECURSIVE SplitAt(_, _)
SplitAt(s, c) ==
  IF IndexByte(s, c) = 0 THEN << s >>
  ELSE << Cut(s, c).before >> \o SplitAt(Cut(s, c).after, c)

\* URL.Query: the pairs of RawQuery, a url.Values held as the sequence of
\* its << key, value >> pairs; a pair that cannot be unescaped or holds a
\* ';' is left out.
URLQuery(u) ==
  LET pieces == SelectSeq(SplitAt(u.RawQuery, "&"),
                          LAMBDA x : /\ x # << >>
                                     /\ IndexByte(x, ";") = 0
                                     /\ ValidEscapes(x))
  IN  [ i \in 1..Len(pieces) |->
          << Unescaped(Cut(pieces[i], "=").before, 1, "query"),
             Unescaped(Cut(pieces[i], "=").after, 1, "query") >> ]

\* Values.Add
ValuesAdd(q, key, value) == Append(q, << key, value >>)

\* The elements of a sequence of texts joined by c.
RECURSIVE Join(_, _)
Join(ts, c) ==
  IF ts = << >> THEN << >>
  ELSE IF Len(ts) = 1 THEN ts[1]
  ELSE ts[1] \o << c >> \o Join(Tail(ts), c)

\* Values.Encode: key=value pairs, both escaped, sorted by key, the values
\* of one key in the order they were added.
ValuesEncode(q) ==
  LET ks == SortStrings({ q[i][1] : i \in 1..Len(q) })
      of(k) == SelectSeq(q, LAMBDA x : x[1] = k)
  IN  Join(Concat([ j \in 1..Len(ks) |->
                      [ i \in 1..Len(of(ks[j])) |->
                          QueryEscape(ks[j]) \o << "=" >>
                            \o QueryEscape(of(ks[j])[i][2]) ] ]),
           "&")

(*************************************************************************)
(* encoding/json: Unmarshal                                              *)
(*                                                                       *)
(* A JSON value is a record: t is its kind, s the text of a string, n    *)
(* the value of a number, m the members << key, value >> of an object or *)
(* the elements of an array.  The modelled texts hold integers only and  *)
(* no string escape other than \" \\ \/ \n \r.                           *)
(*************************************************************************)

JSONValue(t, s, n, m) == [ t |-> t, s |-> s, n |-> n, m |-> m ]

\* What a parsing step gives: whether it found a value, the value, and
\* the place after it.
Parsed(v, j) == [ ok |-> TRUE, v |-> v, j |-> j ]

NotParsed == [ ok |-> FALSE, v |-> JSONValue("null", << >>, 0, << >>), j |-> 0 ]

\* The first place from i on that holds no white space.
SkipSpace(s, i) ==
  CHOOSE j \in i..(Len(s) + 1) :
    /\ j = Len(s) + 1 \/ s[j] \notin { " ", "\n", "\r" }
    /\ \A k \in i..(j - 1) : s[k] \in { " ", "\n", "\r" }

\* The characters of a string literal from place i on, up to its closing
\* quote.
RECURSIVE ScanString(_, _, _)
ScanString(s, i, acc) ==
  IF i > Len(s) \/ OrdTable[s[i]] < 32 THEN NotParsed
  ELSE IF s[i] = "\"" THEN Parsed(JSONValue("string", acc, 0, << >>), i + 1)
  ELSE IF s[i] = "\\"
  THEN IF i = Len(s) THEN NotParsed
       ELSE IF s[i + 1] \in { "\"", "\\", "/" }
       THEN ScanString(s, i + 2, Append(acc, s[i + 1]))
       ELSE IF s[i + 1] = "n" THEN ScanString(s, i + 2, Append(acc, "\n"))
       ELSE IF s[i + 1] = "r" THEN ScanString(s, i + 2, Append(acc, "\r"))
       ELSE NotParsed
  ELSE ScanString(s, i + 1, Append(acc, s[i]))

\* The value of a sequence of digits.
RECURSIVE DigitsValue(_)
DigitsValue(d) ==
  IF d = << >> THEN 0
  ELSE 10 * DigitsValue(SubSeq(d, 1, Len(d) - 1)) + unhex(d[Len(d)])

\* An integer literal at place i: an optional '-', then 0 or a digit other
\* than 0 followed by digits.
ScanNumber(s, i) ==
  LET neg   == s[i] = "-"
      first == IF neg THEN i + 1 ELSE i
      last  == CHOOSE j \in (first - 1)..Len(s) :
                 /\ \A k \in first..j : s[k] \in Digits
                 /\ j = Len(s) \/ s[j + 1] \notin Digits
      value == DigitsValue(SubSeq(s, first, last))
  IN  IF last < first \/ (s[first] = "0" /\ last > first) THEN NotParsed
      ELSE Parsed(JSONValue("number", << >>, IF neg THEN 0 - value ELSE value,
                            << >>),
                  last + 1)

\* Whether text t stands at place i of s.
TextAt(s, i, t) ==
  i + Len(t) - 1 <= Len(s) /\ SubSeq(s, i, i + Len(t) - 1) = t

\* One of the literals true, false and null at place i.
ScanLiteral(s, i) ==
  IF TextAt(s, i, << "t", "r", "u", "e" >>)
  THEN Parsed(JSONValue("true", << >>, 0, << >>), i + 4)
  ELSE IF TextAt(s, i, << "f", "a", "l", "s", "e" >>)
  THEN Parsed(JSONValue("false", << >>, 0, << >>), i + 5)
  ELSE IF TextAt(s, i, << "n", "u", "l", "l" >>)
  THEN Parsed(JSONValue("null", << >>, 0, << >>), i + 4)
  ELSE NotParsed

RECURSIVE ParseValue(_, _)
RECURSIVE ParseElements(_, _, _)
RECURSIVE ParseMembers(_, _, _)

\* The JSON value that starts at place i, after white space.
ParseValue(s, i) ==
  LET j == SkipSpace(s, i)
      k == SkipSpace(s, j + 1)
  IN  IF j > Len(s) THEN NotParsed
      ELSE IF s[j] = "\"" THEN ScanString(s, j + 1, << >>)
      ELSE IF s[j] = "{"
      THEN IF k <= Len(s) /\ s[k] = "}"
           THEN Parsed(JSONValue("object", << >>, 0, << >>), k + 1)
           ELSE ParseMembers(s, k, << >>)
      ELSE IF s[j] = "["
      THEN IF k <= Len(s) /\ s[k] = "]"
           THEN Parsed(JSONValue("array", << >>, 0, << >>), k + 1)
           ELSE ParseElements(s, k, << >>)
      ELSE IF s[j] \in Digits \cup { "-" } THEN ScanNumber(s, j)
      ELSE ScanLiteral(s, j)

\* The elements of an array from place i on, acc those before.
ParseElements(s, i, acc) ==
  LET el == ParseValue(s, i)
      j  == SkipSpace(s, el.j)
  IN  IF ~el.ok \/ j > Len(s) THEN NotParsed
      ELSE IF s[j] = ","
      THEN ParseElements(s, j + 1, Append(acc, el.v))
      ELSE IF s[j] = "]"
      THEN Parsed(JSONValue("array", << >>, 0, Append(acc, el.v)), j + 1)
      ELSE NotParsed

\* The members of an object from place i on, acc those before.
ParseMembers(s, i, acc) ==
  LET j   == SkipSpace(s, i)
      key == IF j <= Len(s) /\ s[j] = "\"" THEN ScanString(s, j + 1, << >>)
             ELSE NotParsed
      c   == SkipSpace(s, key.j)
      val == IF key.ok /\ c <= Len(s) /\ s[c] = ":" THEN ParseValue(s, c + 1)
             ELSE NotParsed
      e   == SkipSpace(s, val.j)
      all == Append(acc, << key.v.s, val.v >>)
  IN  IF ~val.ok \/ e > Len(s) THEN NotParsed
      ELSE IF s[e] = "," THEN ParseMembers(s, e + 1, all)
      ELSE IF s[e] = "}"
      THEN Parsed(JSONValue("object", << >>, 0, all), e + 1)
      ELSE NotParsed

\* The value of a text that is one JSON value between white space.
ParseJSON(s) ==
  LET r == ParseValue(s, 1)
  IN  IF r.ok /\ SkipSpace(s, r.j) > Len(s) THEN r ELSE NotParsed

\* Decoding into a string field: a string is taken, null leaves the field
\* as it is, any other value is an UnmarshalTypeError and leaves it too.
DecodeStringField(cur, v) ==
  IF v.t = "string" THEN [ err |-> FALSE, val |-> v.s ]
  ELSE IF v.t = "null" THEN [ err |-> FALSE, val |-> cur ]
  ELSE [ err |-> TRUE, val |-> cur ]

\* An InvitationResult, of which the fields ID and Status are modelled;
\* the modelled texts hold no key of another field.
ZeroInvitation == [ ID |-> << >>, Status |-> << >> ]

kId == << "i", "d" >>

kStatus == << "s", "t", "a", "t", "u", "s" >>

kInvitations ==
  << "i", "n", "v", "i", "t", "a", "t", "i", "o", "n", "s" >>

\* The members of an object from the i-th on decoded into an
\* InvitationResult.  A key names a field whatever its case, a key that
\* names no field is skipped, and after a type error the decoding goes on.
RECURSIVE DecodeInvitationMembers(_, _, _)
DecodeInvitationMembers(m, i, acc) ==
  IF i > Len(m) THEN acc
  ELSE LET key == ToLower(m[i][1])
           id  == DecodeStringField(acc.value.ID, m[i][2])
           st  == DecodeStringField(acc.value.Status, m[i][2])
       IN  DecodeInvitationMembers(m, i + 1,
             IF key = kId
             THEN [ err   |-> acc.err \/ id.err,
                    value |-> [ acc.value EXCEPT !.ID = id.val ] ]
             ELSE IF key = kStatus
             THEN [ err   |-> acc.err \/ st.err,
                    value |-> [ acc.value EXCEPT !.Status = st.val ] ]
             ELSE acc)

\* A JSON value decoded into an InvitationResult.
DecodeInvitation(v) ==
  IF v.t = "null" THEN [ err |-> FALSE, value |-> ZeroInvitation ]
  ELSE IF v.t # "object" THEN [ err |-> TRUE, value |-> ZeroInvitation ]
  ELSE DecodeInvitationMembers(v.m, 1,
                               [ err |-> FALSE, value |-> ZeroInvitation ])

\* json.Unmarshal(data, &invitation): an error when data is not one JSON
\* value or a value has another type than its field.
UnmarshalInvitation(data) ==
  IF ~ParseJSON(data).ok THEN [ err |-> TRUE, value |-> ZeroInvitation ]
  ELSE DecodeInvitation(ParseJSON(data).v)

\* An InvitationsResponse: its field Invitations, a []InvitationResult.
ZeroResponse == [ isNil |-> TRUE, elems |-> << >> ]

\* The members of an object from the i-th on decoded into an
\* InvitationsResponse.
RECURSIVE DecodeResponseMembers(_, _, _)
DecodeResponseMembers(m, i, acc) ==
  IF i > Len(m) THEN acc
  ELSE LET v   == m[i][2]
           els == [ k \in 1..Len(v.m) |-> DecodeInvitation(v.m[k]) ]
       IN  DecodeResponseMembers(m, i + 1,
             IF ToLower(m[i][1]) # kInvitations \/ v.t = "null" THEN acc
             ELSE IF v.t # "array"
             THEN [ acc EXCEPT !.err = TRUE ]
             ELSE [ err   |-> acc.err \/ \E k \in 1..Len(els) : els[k].err,
                    value |-> [ isNil |-> FALSE,
                                elems |-> [ k \in 1..Len(els) |->
                                              els[k].value ] ] ])

\* json.Unmarshal(data, &response)
UnmarshalResponse(data) ==
  LET r == ParseJSON(data)
  IN  IF ~r.ok THEN [ err |-> TRUE, value |-> ZeroResponse ]
      ELSE IF r.v.t = "null" THEN [ err |-> FALSE, value |-> ZeroResponse ]
      ELSE IF r.v.t # "object" THEN [ err |-> TRUE, value |-> ZeroResponse ]
      ELSE DecodeResponseMembers(r.v.m, 1,
                                 [ err |-> FALSE, value |-> ZeroResponse ])

\* json.Marshal of an AcceptInvitationRequest: the fields in the order of
\* the struct under the names of their json tags, a nil slice as null.
MarshalAcceptRequest(invitationIDs, target) ==
  << "{" >>
  \o Quote(<< "i", "n", "v", "i", "t", "a", "t", "i", "o", "n", "I", "d",
              "s" >>)
  \o << ":" >>
  \o (IF invitationIDs.isNil THEN << "n", "u", "l", "l" >>
      ELSE MarshalValue(StringsValue(invitationIDs.elems)))
  \o << "," >> \o Quote(<< "t", "a", "r", "g", "e", "t" >>) \o << ":", "{" >>
  \o Quote(<< "t", "y", "p", "e" >>) \o << ":" >> \o Quote(target.Type)
  \o << "," >>
  \o Quote(<< "v", "a", "l", "u", "e" >>) \o << ":" >> \o Quote(target.Value)
  \o << "}", "}" >>

(*************************************************************************)
(* Inputs: credentials, users, extra maps                                *)
(*************************************************************************)

VRTX == << "V", "R", "T", "X" >>

\* base64url of the UUID 12345678-1234-1234-1234-123456789012.
TestID ==
  << "E", "j", "R", "W", "e", "B", "I", "0", "E", "j", "Q",
     "S", "N", "B", "I", "0", "V", "n", "i", "Q", "E", "g" >>

\* base64url of the UUID whose bytes are all zero.
ZeroID == [ i \in 1..22 |-> "A" ]

\* TestID with other left-over bits in its last character.
LooseID == SubSeq(TestID, 1, 21) \o << "h" >>

\* Identifiers with a line feed at the end and a carriage return inside.
NewlineID == TestID \o << "\n" >>

ReturnID == SubSeq(TestID, 1, 8) \o << "\r" >> \o SubSeq(TestID, 9, 22)

\* "invalid-base64": alphabet characters only, but 14 of them (10 bytes).
InvalidBase64 ==
  << "i", "n", "v", "a", "l", "i", "d", "-", "b", "a", "s", "e", "6", "4" >>

TestKey == << "t", "e", "s", "t", "-", "k", "e", "y" >>

\* The identifier segments tried in a credential.
EncodedIDs ==
  { TestID, ZeroID, LooseID, NewlineID, ReturnID, InvalidBase64,
    InvalidBase64 \o << "!", "!" >>,          \* characters off the alphabet
    TestID \o << "=", "=" >>,                 \* padded
    SubSeq(TestID, 1, 21),                    \* one character left over
    SubSeq(TestID, 1, 20),                    \* 15 bytes
    TestID \o << "A", "A" >>,                 \* 17 bytes
    << >> }

Prefixes == { VRTX, << "W", "R", "O", "N", "G" >>, << "v", "r", "t", "x" >>,
              << >> }

Secrets == { TestKey, << "k", "2" >>, << >> }

Dot(a, b) == a \o << "." >> \o b

\* The apiKey strings a Client is constructed with: every identifier
\* under the right prefix, every prefix over two identifiers, and
\* strings of one, two, four and five segments.
Credentials ==
  { Dot(Dot(VRTX, e), TestKey) : e \in EncodedIDs }
    \cup { Dot(Dot(VRTX, TestID), k) : k \in Secrets }
    \cup { Dot(Dot(q, e), TestKey) :
             q \in Prefixes, e \in { TestID, InvalidBase64 } }
    \cup { << "i", "n", "v", "a", "l", "i", "d", "-", "k", "e", "y" >>,
           << >>,
           Dot(VRTX, TestID),
           Dot(Dot(VRTX, TestID), << "a", ".", "b" >>),
           Dot(Dot(VRTX, TestID), << "a", ".", "b", "." >>) }

\* []string values: nil, empty and populated.
NilSlice == [ isNil |-> TRUE, elems |-> << >> ]

Slice(l) == [ isNil |-> FALSE, elems |-> l ]

AutoJoin == << "a", "u", "t", "o", "J", "o", "i", "n" >>

\* *User arguments.
NilUser ==
  [ isNil |-> TRUE, ID |-> << >>, Email |-> << >>, AdminScopes |-> NilSlice ]

UserOf(id, email, scopes) ==
  [ isNil |-> FALSE, ID |-> id, Email |-> email, AdminScopes |-> scopes ]

Users ==
  { UserOf(<< "u", "1" >>, << "a", "@", "b" >>, NilSlice),
    UserOf(<< "u", "1" >>, << "a", "@", "b" >>, Slice(<< >>)),
    UserOf(<< "u", "1" >>, << "a", "@", "b" >>, Slice(<< AutoJoin >>)),
    UserOf(<< "u", "\"", "<" >>, << >>,
           Slice(<< AutoJoin, << "x", ".", "y" >> >>)),
    UserOf(<< >>, << >>, NilSlice),
    NilUser }

\* map[string]interface{} arguments.
NilMap == [ isNil |-> TRUE, kv |-> << >> ]

MapOf(kv) == [ isNil |-> FALSE, kv |-> kv ]

kUserId == << "u", "s", "e", "r", "I", "d" >>

kUserEmail == << "u", "s", "e", "r", "E", "m", "a", "i", "l" >>

kExpires == << "e", "x", "p", "i", "r", "e", "s" >>

kAdminScopes ==
  << "a", "d", "m", "i", "n", "S", "c", "o", "p", "e", "s" >>

kRole == << "r", "o", "l", "e" >>

kDept == << "d", "e", "p", "t" >>

Extras ==
  { NilMap,
    MapOf(<< >>),
    MapOf(<< << kRole, StringValue(<< "a", "d", "m", "i", "n" >>) >> >>),
    MapOf(<< << kRole, StringValue(<< "a", "d", "m", "i", "n" >>) >>,
             << kDept, StringValue(<< "E", "n", "g" >>) >> >>),
    MapOf(<< << kExpires, IntValue(0) >>,
             << kUserId, StringValue(<< "r", "o", "o", "t" >>) >> >>),
    MapOf(<< << kAdminScopes, StringsValue(<< << "a", "l", "l" >> >>) >> >>),
    MapOf(<< << kUserEmail, IntValue(7) >> >>),
    MapOf(<< << kRole, ChanValue >> >>) }

(*************************************************************************)
(* net/http: requests and responses                                      *)
(*************************************************************************)

userAgent ==
  << "v", "o", "r", "t", "e", "x", "-", "g", "o", "-", "s", "d", "k",
     "/", "1", ".", "0", ".", "0" >>

ContentTypeJSON ==
  << "a", "p", "p", "l", "i", "c", "a", "t", "i", "o", "n", "/", "j",
     "s", "o", "n" >>

\* textproto.CanonicalMIMEHeaderKey: the first letter and every letter
\* after a '-' in upper case, the other letters in lower case.
CanonicalMIMEHeaderKey(s) ==
  [ i \in 1..Len(s) |->
      IF i = 1 \/ s[i - 1] = "-"
      THEN IF OrdTable[s[i]] \in 97..122 THEN CharOf(OrdTable[s[i]] - 32)
           ELSE s[i]
      ELSE ToLower(<< s[i] >>)[1] ]

\* Header.Set: the one value of the canonical key.
HeaderSet(h, key, value) == MapAssign(h, CanonicalMIMEHeaderKey(key), value)

\* Header.Get: the value of the canonical key, "" when there is none.
HeaderGet(h, key) ==
  IF HasKey(h, CanonicalMIMEHeaderKey(key))
  THEN Lookup(h, CanonicalMIMEHeaderKey(key))
  ELSE << >>

\* An io.Reader argument: nil, or a bytes.Reader over a text.
NilReader == [ isNil |-> TRUE, text |-> << >> ]

NewReader(text) == [ isNil |-> FALSE, text |-> text ]

\* removeEmptyPort: a host that ends with ':' loses it.
removeEmptyPort(host) ==
  IF LastIndexByte(host, ":") > LastIndexByte(host, "]")
     /\ host[Len(host)] = ":"
  THEN SubSeq(host, 1, Len(host) - 1)
  ELSE host

\* An *http.Request that has not been made.
NoRequest ==
  [ Method |-> << >>, URL |-> NoURL, Host |-> << >>, Header |-> << >>,
    Body |-> NilReader, ContentLength |-> 0 ]

\* http.NewRequest(method, url, body) for one of the methods GET, POST and
\* DELETE: the URL is parsed again, an error when it cannot be.
NewRequestTo(method, u, host, body) ==
  IF u.err THEN [ err |-> TRUE, req |-> NoRequest ]
  ELSE [ err |-> FALSE,
         req |-> [ Method |-> method,
                   URL    |-> [ u EXCEPT !.Host = host ],
                   Host   |-> host,
                   Header |-> << >>,
                   Body   |-> body,
                   ContentLength |-> Len(body.text) ] ]

NewRequestOf(method, u, body) ==
  NewRequestTo(method, u, removeEmptyPort(u.Host), body)

NewRequest(method, urlStr, body) == NewRequestOf(method, Parse(urlStr), body)

\* http.StatusText of the modelled status codes; a code without a text is
\* announced by the server as "status code" and the code.
StatusText(code) ==
  IF code = 200 THEN << "O", "K" >>
  ELSE IF code = 204 THEN
       << "N", "o", " ", "C", "o", "n", "t", "e", "n", "t" >>
  ELSE IF code = 400 THEN
       << "B", "a", "d", " ", "R", "e", "q", "u", "e", "s", "t" >>
  ELSE IF code = 404 THEN
       << "N", "o", "t", " ", "F", "o", "u", "n", "d" >>
  ELSE IF code = 500 THEN
       << "I", "n", "t", "e", "r", "n", "a", "l", " ", "S", "e", "r",
          "v", "e", "r", " ", "E", "r", "r", "o", "r" >>
  ELSE
       << "s", "t", "a", "t", "u", "s", " ", "c", "o", "d", "e", " " >>
       \o FormatInt(code)

\* Response.Status, as in "404 Not Found".
Status(code) == FormatInt(code) \o << " " >> \o StatusText(code)

(*************************************************************************)
(* Errors and results of the invitation operations                       *)
(*************************************************************************)

\* A nil error.
NilError ==
  [ kind |-> "nil", msg |-> "", StatusCode |-> 0, Message |-> << >>,
    Details |-> << >> ]

\* fmt.Errorf(msg + ": %w", err)
Errorf(msg) == [ NilError EXCEPT !.kind = "error", !.msg = msg ]

\* Lines 223-227: the *APIError of a response.
APIError(statusCode, status, responseBody) ==
  [ kind       |-> "*APIError",
    msg        |-> "",
    StatusCode |-> statusCode,
    Message    |->
      << "V", "o", "r", "t", "e", "x", " ", "A", "P", "I", " ", "r", "e",
         "q", "u", "e", "s", "t", " ", "f", "a", "i", "l", "e", "d", ":",
         " " >>
        \o FormatInt(statusCode) \o << " " >> \o status,
    Details    |-> responseBody ]

\* What an operation returns beside its error: nothing ("none"), a
\* *InvitationResult ("pointer") or a []InvitationResult ("list"), either
\* of which may be nil.
NoResult ==
  [ kind |-> "none", isNil |-> TRUE, invitation |-> ZeroInvitation,
    list |-> << >> ]

NilPointer == [ NoResult EXCEPT !.kind = "pointer" ]

PointerTo(invitation) ==
  [ NoResult EXCEPT !.kind = "pointer", !.isNil = FALSE,
                    !.invitation = invitation ]

NilList == [ NoResult EXCEPT !.kind = "list" ]

ListOf(slice) ==
  [ NoResult EXCEPT !.kind = "list", !.isNil = slice.isNil,
                    !.list = slice.elems ]

(*************************************************************************)
(* Client.apiRequest and the invitation operations                       *)
(*************************************************************************)

InvitationsPath ==
  << "/", "a", "p", "i", "/", "v", "1", "/", "i", "n", "v", "i", "t",
     "a", "t", "i", "o", "n", "s" >>

ByGroupPath ==
  << "/", "a", "p", "i", "/", "v", "1", "/", "i", "n", "v", "i", "t",
     "a", "t", "i", "o", "n", "s", "/", "b", "y", "-", "g", "r", "o",
     "u", "p" >>

\* The arguments of an operation; an operation reads those of its
\* parameters only.
Args(invitationID, groupType, groupID, targetType, targetValue, invitationIDs, target) ==
  [ invitationID  |-> invitationID,
    groupType     |-> groupType,
    groupID       |-> groupID,
    targetType    |-> targetType,
    targetValue   |-> targetValue,
    invitationIDs |-> invitationIDs,
    target        |-> target ]

NoTarget == [ Type |-> << >>, Value |-> << >> ]

NoArgs == Args(<< >>, << >>, << >>, << >>, << >>, NilSlice, NoTarget)

\* A body argument of apiRequest: nil, or a value with its json.Marshal.
NilBody == [ isNil |-> TRUE, err |-> FALSE, json |-> << >> ]

BodyOf(json) == [ isNil |-> FALSE, err |-> FALSE, json |-> json ]

\* fmt.Sprintf("/api/v1/invitations/%s", invitationID)
InvitationPath(invitationID) ==
  InvitationsPath \o << "/" >> \o invitationID

\* fmt.Sprintf("/api/v1/invitations/%s/reinvite", invitationID)
ReinvitePath(invitationID) ==
  InvitationsPath \o << "/" >> \o invitationID
    \o << "/", "r", "e", "i", "n", "v", "i", "t", "e" >>

\* fmt.Sprintf("/api/v1/invitations/by-group/%s/%s", groupType, groupID)
GroupPath(groupType, groupID) ==
  ByGroupPath \o << "/" >> \o groupType \o << "/" >> \o groupID

GET == << "G", "E", "T" >>

POST == << "P", "O", "S", "T" >>

DELETE == << "D", "E", "L", "E", "T", "E" >>

Operations ==
  { "GetInvitationsByTarget", "GetInvitation", "RevokeInvitation",
    "AcceptInvitations", "DeleteInvitationsByGroup",
    "GetInvitationsByGroup", "Reinvite" }

\* The call of apiRequest each operation makes: method, path, body and
\* query parameters.
ApiCall(name, a) ==
  LET call(method, path, body, queryParams) ==
        [ method |-> method, path |-> path, body |-> body,
          queryParams |-> queryParams ]
  IN  IF name = "GetInvitationsByTarget"
      THEN call(GET, InvitationsPath, NilBody,
                MapOf(<< <<
                            << "t", "a", "r", "g", "e", "t", "T", "y",
                               "p", "e" >>,
                            a.targetType >>,
                         <<
                            << "t", "a", "r", "g", "e", "t", "V", "a",
                               "l", "u", "e" >>,
                            a.targetValue >> >>))
      ELSE IF name = "GetInvitation"
      THEN call(GET, InvitationPath(a.invitationID), NilBody, NilMap)
      ELSE IF name = "RevokeInvitation"
      THEN call(DELETE, InvitationPath(a.invitationID), NilBody, NilMap)
      ELSE IF name = "AcceptInvitations"
      THEN call(POST,
                InvitationsPath \o << "/", "a", "c", "c", "e", "p", "t" >>,
                BodyOf(MarshalAcceptRequest(a.invitationIDs, a.target)),
                NilMap)
      ELSE IF name = "DeleteInvitationsByGroup"
      THEN call(DELETE, GroupPath(a.groupType, a.groupID), NilBody, NilMap)
      ELSE IF name = "GetInvitationsByGroup"
      THEN call(GET, GroupPath(a.groupType, a.groupID), NilBody, NilMap)
      ELSE call(POST, ReinvitePath(a.invitationID), NilBody, NilMap)

\* Lines 179-185: the query parameters added to those of the URL.  The
\* keys of queryParams differ, so the order the range visits them in does
\* not show in the encoded query, which is sorted by key.
RECURSIVE AddAll(_, _, _)
AddAll(q, kv, i) ==
  IF i > Len(kv) THEN q
  ELSE AddAll(ValuesAdd(q, kv[i][1], kv[i][2]), kv, i + 1)

WithQuery(u, queryParams) ==
  IF queryParams.isNil THEN u
  ELSE [ u EXCEPT !.RawQuery =
                    ValuesEncode(AddAll(URLQuery(u), queryParams.kv, 1)) ]

\* Mutant of SetHeaders: the Content-Type is set on the requests with a
\* body only.
SetHeadersOfBody(req, c) ==
  LET typed ==
        IF req.Body.isNil THEN req.Header
        ELSE HeaderSet(req.Header,
                       << "C", "o", "n", "t", "e", "n", "t", "-", "T", "y",
                          "p", "e" >>,
                       ContentTypeJSON)
  IN  [ req EXCEPT !.Header =
          HeaderSet(
            HeaderSet(typed,
                      << "x", "-", "a", "p", "i", "-", "k", "e", "y" >>,
                      c.apiKey),
            << "U", "s", "e", "r", "-", "A", "g", "e", "n", "t" >>,
            userAgent) ]

\* Mutant of SetHeaders: the x-api-key header is the key part of the API
\* key, the text after its last '.'.
SetHeadersKeyPart(req, c) ==
  [ req EXCEPT !.Header =
      HeaderSet(
        HeaderSet(
          HeaderSet(req.Header,
                    << "C", "o", "n", "t", "e", "n", "t", "-", "T", "y",
                       "p", "e" >>,
                    ContentTypeJSON),
          << "x", "-", "a", "p", "i", "-", "k", "e", "y" >>,
          SubSeq(c.apiKey, LastIndexByte(c.apiKey, ".") + 1,
                 Len(c.apiKey))),
        << "U", "s", "e", "r", "-", "A", "g", "e", "n", "t" >>, userAgent) ]

\* Lines 203-206: the headers of every request.
SetHeaders(req, c) ==
  [ req EXCEPT !.Header =
      HeaderSet(
        HeaderSet(
          HeaderSet(req.Header,
                    << "C", "o", "n", "t", "e", "n", "t", "-", "T", "y",
                       "p", "e" >>,
                    ContentTypeJSON),
          << "x", "-", "a", "p", "i", "-", "k", "e", "y" >>, c.apiKey),
        << "U", "s", "e", "r", "-", "A", "g", "e", "n", "t" >>, userAgent) ]

\* Lines 172-206: the request apiRequest builds, or the error it returns
\* without having made one.
BuildRequestOf(c, u, body, nr) ==
  IF u.err
  THEN [ err |-> Errorf("failed to parse URL"), req |-> NoRequest ]
  ELSE IF ~body.isNil /\ body.err
  THEN [ err |-> Errorf("failed to marshal request body"),
         req |-> NoRequest ]
  ELSE IF nr.err
  THEN [ err |-> Errorf("failed to create request"), req |-> NoRequest ]
  ELSE [ err |-> NilError, req |-> SetHeaders(nr.req, c) ]

BuildRequestTo(c, method, u, body, queryParams) ==
  BuildRequestOf(c, u, body,
                 NewRequest(method, URLString(WithQuery(u, queryParams)),
                            IF body.isNil THEN NilReader
                            ELSE NewReader(body.json)))

BuildRequest(c, method, path, body, queryParams) ==
  BuildRequestTo(c, method, Parse(c.baseURL \o path), body, queryParams)

\* Mutant of ResponseResult: only the client errors, 400 to 499, are
\* returned as an *APIError.
ResponseResultClientErrors(statusCode, responseBody) ==
  IF statusCode >= 400 /\ statusCode < 500
  THEN [ body |-> << >>, isNil |-> TRUE,
         err |-> APIError(statusCode, Status(statusCode), responseBody) ]
  ELSE IF Len(responseBody) = 0
  THEN [ body |-> << "{", "}" >>, isNil |-> FALSE, err |-> NilError ]
  ELSE [ body |-> responseBody, isNil |-> FALSE, err |-> NilError ]

\* Mutant of ResponseResult: an empty body is returned as it is.
ResponseResultKeepsEmpty(statusCode, responseBody) ==
  IF statusCode >= 400
  THEN [ body |-> << >>, isNil |-> TRUE,
         err |-> APIError(statusCode, Status(statusCode), responseBody) ]
  ELSE [ body |-> responseBody, isNil |-> FALSE, err |-> NilError ]

\* Lines 221-236: what apiRequest returns for a response whose body has
\* been read: an *APIError for a status of 400 and more, "{}" for an empty
\* body, the body otherwise.
ResponseResult(statusCode, responseBody) ==
  IF statusCode >= 400
  THEN [ body |-> << >>, isNil |-> TRUE,
         err |-> APIError(statusCode, Status(statusCode), responseBody) ]
  ELSE IF Len(responseBody) = 0
  THEN [ body |-> << "{", "}" >>, isNil |-> FALSE, err |-> NilError ]
  ELSE [ body |-> responseBody, isNil |-> FALSE, err |-> NilError ]

\* The result an operation returns with the error of apiRequest.
FailedResult(name) ==
  IF name \in { "RevokeInvitation", "DeleteInvitationsByGroup" }
  THEN NoResult
  ELSE IF name \in { "GetInvitationsByTarget", "GetInvitationsByGroup" }
  THEN NilList
  ELSE NilPointer

\* What an operation returns once apiRequest has returned ret: the error
\* of apiRequest as it is; else, for the operations with a result, the
\* decoded body or the error of json.Unmarshal.
OperationResultOf(name, ret, invitation, response) ==
  IF ret.err.kind # "nil"
  THEN [ result |-> FailedResult(name), err |-> ret.err ]
  ELSE IF name \in { "RevokeInvitation", "DeleteInvitationsByGroup" }
  THEN [ result |-> NoResult, err |-> NilError ]
  ELSE IF name \in { "GetInvitationsByTarget", "GetInvitationsByGroup" }
  THEN IF response.err
       THEN [ result |-> NilList,
              err |-> Errorf("failed to unmarshal response") ]
       ELSE [ result |-> ListOf(response.value), err |-> NilError ]
  ELSE IF invitation.err
  THEN [ result |-> NilPointer,
         err |-> Errorf("failed to unmarshal response") ]
  ELSE [ result |-> PointerTo(invitation.value), err |-> NilError ]

OperationResult(name, ret) ==
  OperationResultOf(name, ret, UnmarshalInvitation(ret.body),
                    UnmarshalResponse(ret.body))

(*************************************************************************)
(* Bounds                                                                *)
(*************************************************************************)

\* The clock runs from Epoch to Epoch + MaxTick seconds.
MaxTick == 1

(*************************************************************************)
(* Client construction                                                   *)
(*************************************************************************)

defaultBaseURL ==
  << "h", "t", "t", "p", "s", ":", "/", "/", "a", "p", "i", ".", "v",
     "o", "r", "t", "e", "x", "s", "o", "f", "t", "w", "a", "r", "e",
     ".", "c", "o", "m" >>

\* A *http.Client with a Timeout of so many seconds; 0 is no timeout.
HTTPClientOf(timeout) == [ isNil |-> FALSE, timeout |-> timeout ]

\* &http.Client{Timeout: 30 * time.Second}
DefaultHTTPClient == HTTPClientOf(30)

\* The environment variable VORTEX_API_BASE_URL: not set, or set to a
\* value, which may be empty.
Unset == [ set |-> FALSE, value |-> << >> ]

SetTo(value) == [ set |-> TRUE, value |-> value ]

\* os.Getenv: the value, "" when the variable is not set.
Getenv(variable) == IF variable.set THEN variable.value ELSE << >>

\* Mutant of NewClient: the environment is not looked at.
NewClientNoEnv(apiKey, env) ==
  [ apiKey     |-> apiKey,
    baseURL    |-> defaultBaseURL,
    httpClient |-> DefaultHTTPClient ]

\* NewClient(apiKey), with env what os.Getenv("VORTEX_API_BASE_URL")
\* gives.
NewClient(apiKey, env) ==
  [ apiKey     |-> apiKey,
    baseURL    |-> IF env = << >> THEN defaultBaseURL ELSE env,
    httpClient |-> DefaultHTTPClient ]

\* A nil *http.Client argument.
NilHTTPClient == [ isNil |-> TRUE, timeout |-> 0 ]

\* Mutant of NewClientWithOptions: a client without a timeout is replaced
\* by the default one, as a nil client is.
NewClientWithOptionsTimeout(apiKey, baseURL, httpClient) ==
  [ apiKey     |-> apiKey,
    baseURL    |-> IF baseURL = << >> THEN defaultBaseURL ELSE baseURL,
    httpClient |-> IF httpClient.isNil \/ httpClient.timeout = 0
                   THEN DefaultHTTPClient
                   ELSE httpClient ]

\* NewClientWithOptions(apiKey, baseURL, httpClient)
NewClientWithOptions(apiKey, baseURL, httpClient) ==
  [ apiKey     |-> apiKey,
    baseURL    |-> IF baseURL = << >> THEN defaultBaseURL ELSE baseURL,
    httpClient |-> IF httpClient.isNil THEN DefaultHTTPClient
                   ELSE httpClient ]

(*************************************************************************)
(* State                                                                 *)
(*************************************************************************)

VARIABLES
  client,   \* the Client: apiKey, baseURL, httpClient
  now,      \* the wall clock, in unix seconds (time.Now().Unix())
  inv,      \* inv[p]: the GenerateJWT invocation of caller p
  op,       \* the invitation operation the first caller has under way
  net       \* the requests that operation has given to httpClient.Do

vars == << client, now, inv, op, net >>

\* First clock reading of a run: 2023-11-14T22:13:20Z.
Epoch == 1700000000

\* The callers: two goroutines that share the Client.
Procs == { 1, 2 }

NoError == "nil"

EmptyHeader == [ IAT |-> 0, Alg |-> << >>, Typ |-> << >>, Kid |-> << >> ]

\* The locals of an invocation that has not started.
Idle ==
  [ pc         |-> "idle",
    user       |-> NilUser,
    extra      |-> NilMap,
    parts      |-> << >>,
    prefix     |-> << >>,
    encodedID  |-> << >>,
    key        |-> << >>,
    uuidBytes  |-> << >>,
    id         |-> << >>,
    signingKey |-> << >>,
    now        |-> 0,
    expires    |-> 0,
    header     |-> EmptyHeader,
    payload    |-> << >>,
    todo       |-> {},
    headerJSON |-> << >>,
    payloadJSON |-> << >>,
    headerB64  |-> << >>,
    payloadB64 |-> << >>,
    toSign     |-> << >>,
    signature  |-> << >>,
    jwt        |-> << >>,
    err        |-> NoError ]

\* A response that has not come.
NoResponse == [ StatusCode |-> 0, Status |-> << >>, Body |-> << >> ]

\* The locals of an invitation operation that has not started.
IdleOp ==
  [ pc           |-> "idle",
    name         |-> "",
    args         |-> NoArgs,
    req          |-> NoRequest,
    resp         |-> NoResponse,
    responseBody |-> << >>,
    result       |-> NoResult,
    err          |-> NilError,
    sent         |-> 0 ]

Init ==
  /\ client \in { NewClient(k, << >>) : k \in Credentials }
  /\ now = Epoch
  /\ inv = [ p \in Procs |-> Idle ]
  /\ op = IdleOp
  /\ net = << >>

\* Mutant of Fail: what has been serialized so far is returned with the
\* error.
FailPartial(l, msg) ==
  [ l EXCEPT !.pc = "returned", !.jwt = l.headerJSON, !.err = msg ]

\* return "", fmt.Errorf(msg)
Fail(l, msg) == [ l EXCEPT !.pc = "returned", !.jwt = << >>, !.err = msg ]

(*************************************************************************)
(* Client.GenerateJWT                                                    *)
(*************************************************************************)

\* The clock advances.
Tick ==
  /\ now < Epoch + MaxTick
  /\ now' = now + 1
  /\ UNCHANGED << client, inv, op, net >>

\* A caller invokes c.GenerateJWT(user, extra).
Call(p, user, extra) ==
  /\ inv[p].pc = "idle"
  /\ inv' = [ inv EXCEPT ![p] =
                [ Idle EXCEPT !.pc = "parse", !.user = user,
                              !.extra = extra ] ]
  /\ UNCHANGED << client, now, op, net >>

\* Mutant of ParseError: more than three parts are let through.
ParseErrorAtLeastThree(parts) ==
  IF Len(parts) < 3 THEN "invalid API key format"
  ELSE IF parts[1] # VRTX THEN "invalid API key prefix"
  ELSE NoError

\* Mutant of ParseError: the prefix is not looked at.
ParseErrorAnyPrefix(parts) ==
  IF Len(parts) # 3 THEN "invalid API key format" ELSE NoError

\* Lines 87-97: the error of the checks on the parts of the API key.
ParseError(parts) ==
  IF Len(parts) # 3 THEN "invalid API key format"
  ELSE IF parts[1] # VRTX THEN "invalid API key prefix"
  ELSE NoError

\* Lines 86-97: split the API key, check the number of parts and the
\* prefix.
ParseKey(p) ==
  /\ inv[p].pc = "parse"
  /\ LET l     == inv[p]
         parts == Split(client.apiKey)
         err   == ParseError(parts)
     IN  inv' = [ inv EXCEPT ![p] =
           IF err = "invalid API key format"
           THEN Fail([ l EXCEPT !.parts = parts ], err)
           ELSE IF err # NoError
           THEN Fail([ l EXCEPT !.parts = parts, !.prefix = parts[1],
                                !.encodedID = parts[2], !.key = parts[3] ],
                     err)
           ELSE [ l EXCEPT !.pc = "decode", !.parts = parts,
                           !.prefix = parts[1], !.encodedID = parts[2],
                           !.key = parts[3] ] ]
  /\ UNCHANGED << client, now, op, net >>

\* Lines 99-109: decode the identifier and make a UUID of its bytes.
DecodeID(p) ==
  /\ inv[p].pc = "decode"
  /\ LET l   == inv[p]
         dec == DecodeString(l.encodedID)
         u   == FromBytes(dec.bytes)
     IN  inv' = [ inv EXCEPT ![p] =
           IF dec.err
           THEN Fail(l, "failed to decode API key ID")
           ELSE IF u.err
           THEN Fail([ l EXCEPT !.uuidBytes = dec.bytes ],
                     "failed to parse UUID from API key")
           ELSE [ l EXCEPT !.pc = "derive", !.uuidBytes = dec.bytes,
                           !.id = u.uuid ] ]
  /\ UNCHANGED << client, now, op, net >>

\* Mutant of SigningKey: the secret itself is the signing key.
SigningKeyRaw(key, id) == Bytes(key)

\* Lines 112-114: HMAC of the UUID string under the secret.
SigningKey(key, id) == HMACSHA256(Bytes(key), Bytes(UUIDString(id)))

\* Lines 111-114: derive the signing key from the secret and the UUID
\* string.
DeriveKey(p) ==
  /\ inv[p].pc = "derive"
  /\ LET l == inv[p]
     IN  inv' = [ inv EXCEPT ![p] =
           [ l EXCEPT !.pc = "build",
                      !.signingKey = SigningKey(l.key, l.id) ] ]
  /\ UNCHANGED << client, now, op, net >>

\* expires := now + 3600 // 1 hour
TokenLifetime == 3600

Expires(t) == t + TokenLifetime

HS256 == << "H", "S", "2", "5", "6" >>

JWT == << "J", "W", "T" >>

\* Mutant of Header: kid is the hexadecimal text of the bytes, without
\* the dashes of the canonical form.
HeaderKidHex(t, id) ==
  [ IAT |-> t, Alg |-> HS256, Typ |-> JWT, Kid |-> HexEncode(id) ]

\* The JWTHeader literal of lines 120-125.
Header(t, id) ==
  [ IAT |-> t, Alg |-> HS256, Typ |-> JWT, Kid |-> UUIDString(id) ]

\* The payload literal of lines 128-132.
RequiredFields(user, expires) ==
  << << kUserId, StringValue(user.ID) >>,
     << kUserEmail, StringValue(user.Email) >>,
     << kExpires, IntValue(expires) >> >>

\* Mutant of WithAdminScopes: adminScopes is added when the slice has
\* elements.
WithAdminScopesNonEmpty(payload, user) ==
  IF Len(user.AdminScopes.elems) > 0
  THEN MapAssign(payload, kAdminScopes,
                 StringsValue(user.AdminScopes.elems))
  ELSE payload

\* Lines 134-137: adminScopes is added when the slice is not nil.
WithAdminScopes(payload, user) ==
  IF ~user.AdminScopes.isNil
  THEN MapAssign(payload, kAdminScopes,
                 StringsValue(user.AdminScopes.elems))
  ELSE payload

\* Lines 116-137: read the clock, build the header and the payload with
\* its required fields, add adminScopes when the slice is not nil.
\* Reading user.ID through a nil *User panics.
BuildEnvelope(p) ==
  /\ inv[p].pc = "build"
  /\ LET l       == inv[p]
         expires == Expires(now)
         header  == Header(now, l.id)
         payload == WithAdminScopes(RequiredFields(l.user, expires),
                                    l.user)
         todo    == IF l.extra.isNil THEN {} ELSE KeySet(l.extra.kv)
     IN  inv' = [ inv EXCEPT ![p] =
           IF l.user.isNil
           THEN [ l EXCEPT !.pc = "panicked", !.now = now,
                           !.expires = expires, !.header = header ]
           ELSE [ l EXCEPT !.pc = IF todo = {} THEN "marshal" ELSE "merge",
                           !.now = now, !.expires = expires,
                           !.header = header, !.payload = payload,
                           !.todo = todo ] ]
  /\ UNCHANGED << client, now, op, net >>

\* Mutant of MergeExtra: the loop over extra ends after its first turn.
MergeExtraOnce(p) ==
  /\ inv[p].pc = "merge"
  /\ \E k \in inv[p].todo :
       LET l == inv[p]
       IN  inv' = [ inv EXCEPT ![p] =
             [ l EXCEPT !.payload =
                          MapAssign(l.payload, k, Lookup(l.extra.kv, k)),
                        !.todo = {},
                        !.pc = "marshal" ] ]
  /\ UNCHANGED << client, now, op, net >>

\* Mutant of MergeExtra: the turn of the loop also stores the key into
\* the caller's map, with the user's ID as its value.
MergeExtraIntoExtra(p) ==
  /\ inv[p].pc = "merge"
  /\ \E k \in inv[p].todo :
       LET l == inv[p]
       IN  inv' = [ inv EXCEPT ![p] =
             [ l EXCEPT !.payload =
                          MapAssign(l.payload, k, Lookup(l.extra.kv, k)),
                        !.extra.kv =
                          MapAssign(l.extra.kv, k, StringValue(l.user.ID)),
                        !.todo = l.todo \ {k},
                        !.pc = IF l.todo = {k} THEN "marshal"
                               ELSE "merge" ] ]
  /\ UNCHANGED << client, now, op, net >>

\* Lines 139-144: one turn of the loop over extra, which visits the keys
\* in an order Go leaves unspecified.
MergeExtra(p) ==
  /\ inv[p].pc = "merge"
  /\ \E k \in inv[p].todo :
       LET l == inv[p]
       IN  inv' = [ inv EXCEPT ![p] =
             [ l EXCEPT !.payload =
                          MapAssign(l.payload, k, Lookup(l.extra.kv, k)),
                        !.todo = l.todo \ {k},
                        !.pc = IF l.todo = {k} THEN "marshal"
                               ELSE "merge" ] ]
  /\ UNCHANGED << client, now, op, net >>

\* Lines 146-158: serialize the header and the payload and encode both.
Encode(p) ==
  /\ inv[p].pc = "marshal"
  /\ LET l  == inv[p]
         hj == MarshalHeader(l.header)
         pj == MarshalMap(l.payload)
     IN  inv' = [ inv EXCEPT ![p] =
           IF hj.err
           THEN Fail(l, "failed to marshal JWT header")
           ELSE IF pj.err
           THEN Fail([ l EXCEPT !.headerJSON = hj.json ],
                     "failed to marshal JWT payload")
           ELSE [ l EXCEPT !.pc = "sign",
                           !.headerJSON = hj.json,
                           !.payloadJSON = pj.json,
                           !.headerB64 = EncodeToString(Bytes(hj.json)),
                           !.payloadB64 = EncodeToString(Bytes(pj.json)) ] ]
  /\ UNCHANGED << client, now, op, net >>

\* Line 161: toSign := headerB64 + "." + payloadB64
ToSign(headerB64, payloadB64) == headerB64 \o << "." >> \o payloadB64

\* Mutant of Signature: only the text after the first separator, the
\* payload segment, is signed.
SignatureOfPayload(signingKey, toSign) ==
  EncodeToString(HMACSHA256(signingKey,
                            Bytes(Split(toSign)[Len(Split(toSign))])))

\* Mutant of Signature: the padded encoding (base64.URLEncoding).
SignaturePadded(signingKey, toSign) ==
  EncodeToString(HMACSHA256(signingKey, Bytes(toSign))) \o << "=" >>

\* Lines 162-164: the encoded HMAC of toSign under the signing key.
Signature(signingKey, toSign) ==
  EncodeToString(HMACSHA256(signingKey, Bytes(toSign)))

\* Mutant of JoinJWT: the separator before the signature is left out.
JoinJWTNoDot(toSign, signature) == toSign \o signature

\* Line 166: jwt := toSign + "." + signature
JoinJWT(toSign, signature) == toSign \o << "." >> \o signature

\* Mutant of Sign: the encoded payload is held in a buffer the callers
\* share, so the one signed may be that of any caller about to sign.
SignShared(p) ==
  /\ inv[p].pc = "sign"
  /\ \E q \in { r \in Procs : inv[r].pc = "sign" } :
       LET l         == inv[p]
           toSign    == ToSign(l.headerB64, inv[q].payloadB64)
           signature == Signature(l.signingKey, toSign)
       IN  inv' = [ inv EXCEPT ![p] =
             [ l EXCEPT !.pc = "returned", !.toSign = toSign,
                        !.signature = signature,
                        !.jwt = JoinJWT(toSign, signature),
                        !.err = NoError ] ]
  /\ UNCHANGED << client, now, op, net >>

\* Lines 160-167: sign headerB64 + "." + payloadB64 with the derived key
\* and return the three segments.
Sign(p) ==
  /\ inv[p].pc = "sign"
  /\ LET l         == inv[p]
         toSign    == ToSign(l.headerB64, l.payloadB64)
         signature == Signature(l.signingKey, toSign)
     IN  inv' = [ inv EXCEPT ![p] =
           [ l EXCEPT !.pc = "returned", !.toSign = toSign,
                      !.signature = signature,
                      !.jwt = JoinJWT(toSign, signature),
                      !.err = NoError ] ]
  /\ UNCHANGED << client, now, op, net >>

\* The caller has taken the result; the locals are gone.
Return(p) ==
  /\ inv[p].pc = "returned"
  /\ inv' = [ inv EXCEPT ![p] = Idle ]
  /\ UNCHANGED << client, now, op, net >>

\* The steps of the callers in P, who pass users of U and extra maps of E.
NextOf(P, U, E) ==
  \/ Tick
  \/ \E p \in P :
       \/ \E user \in U, extra \in E : Call(p, user, extra)
       \/ ParseKey(p)
       \/ DecodeID(p)
       \/ DeriveKey(p)
       \/ BuildEnvelope(p)
       \/ MergeExtra(p)
       \/ Encode(p)
       \/ Sign(p)
       \/ Return(p)

\* One caller, one invocation at a time, every credential and argument.
Next == NextOf({1}, Users, Extras)

Spec == Init /\ [][Next]_vars

\* All callers at once on one Client.  The arguments are the ones of the
\* tests (part_005, lines 39-43 and 64-72), a nil map and a map with a
\* value that cannot be serialized.
PairCredentials ==
  { Dot(Dot(VRTX, TestID), TestKey),
    Dot(Dot(VRTX, InvalidBase64), TestKey) }

PairUsers ==
  { UserOf(<< "u", "1" >>, << "a", "@", "b" >>, Slice(<< AutoJoin >>)),
    UserOf(<< "u", "1" >>, << "a", "@", "b" >>, NilSlice) }

PairExtras ==
  { NilMap,
    MapOf(<< << kRole, StringValue(<< "a", "d", "m", "i", "n" >>) >>,
             << kDept, StringValue(<< "E", "n", "g" >>) >> >>),
    MapOf(<< << kRole, ChanValue >> >>) }

InitPair ==
  /\ client \in { NewClient(k, << >>) : k \in PairCredentials }
  /\ now = Epoch
  /\ inv = [ p \in Procs |-> Idle ]
  /\ op = IdleOp
  /\ net = << >>

NextPair == NextOf(Procs, PairUsers, PairExtras)

SpecPair == InitPair /\ [][NextPair]_vars

(*************************************************************************)
(* The invitation operations                                             *)
(*************************************************************************)

\* The API key and the server address of the tests (part_005, line 144)
\* and an address url.Parse rejects.
TestAPIKey ==
  << "t", "e", "s", "t", "-", "a", "p", "i", "-", "k", "e", "y" >>

TestServerURL ==
  << "h", "t", "t", "p", ":", "/", "/", "1", "2", "7", ".", "0", ".",
     "0", ".", "1", ":", "8", "0", "8", "0" >>

MissingSchemeURL == << ":", "/", "/", "b", "a", "d" >>

HTTPClients ==
  { NewClientWithOptions(TestAPIKey, TestServerURL, NilHTTPClient),
    NewClientWithOptions(TestAPIKey, MissingSchemeURL, NilHTTPClient),
    NewClient(Dot(Dot(VRTX, TestID), TestKey), << >>) }

\* Invitation identifiers: the one of the tests, and identifiers with a
\* character that has a meaning in a URL.
InvitationIDs ==
  {
    << "t", "e", "s", "t", "-", "i", "n", "v", "i", "t", "a", "t", "i",
       "o", "n", "-", "1" >>,
    << "a", "/", "b" >>,
    << "x", "?", "y", "=", "1" >>,
    << "x", "#", "f" >>,
    << "a", "%", "2", "F", "b" >>,
    << "%", "z", "z" >>,
    << "x", " ", "y" >>,
    << >> }

GroupTypes == { << "t", "e", "a", "m" >> }

GroupIDs == { << "g", "1" >>, << "a", "/", "b" >>, << "g", "?", "x", "=", "1" >> }

EmailTarget ==
  [ Type  |-> << "e", "m", "a", "i", "l" >>,
    Value |->
      << "t", "e", "s", "t", "@", "e", "x", "a", "m", "p", "l", "e", ".",
         "c", "o", "m" >> ]

Targets ==
  { EmailTarget,
    [ Type |-> << "a", "&", "b" >>, Value |-> << "x", " ", "y", "=", "z" >> ] }

InvitationIDLists ==
  { NilSlice,
    Slice(<< << "i", "n", "v", "-", "1" >>, << "i", "n", "v", "-", "2" >> >>) }

\* The calls of the operations: an operation and its arguments.
OperationCalls ==
  { << "GetInvitationsByTarget",
       [ NoArgs EXCEPT !.targetType = t.Type, !.targetValue = t.Value ] >> :
      t \in Targets }
  \cup { << name, [ NoArgs EXCEPT !.invitationID = id ] >> :
           name \in { "GetInvitation", "RevokeInvitation", "Reinvite" },
           id \in InvitationIDs }
  \cup { << "AcceptInvitations",
            [ NoArgs EXCEPT !.invitationIDs = ids, !.target = EmailTarget ] >> :
           ids \in InvitationIDLists }
  \cup { << name, [ NoArgs EXCEPT !.groupType = gt, !.groupID = gid ] >> :
           name \in { "DeleteInvitationsByGroup", "GetInvitationsByGroup" },
           gt \in GroupTypes, gid \in GroupIDs }

\* The status codes of the responses.
StatusCodes == { 200, 204, 399, 400, 404, 500 }

\* The bodies of the responses: none, the text of TestAPIRequest_Error, an
\* array, an object whose "id" is a number, an invitation and a list of
\* invitations.
Bodies ==
  { << >>,
    << "[", "]" >>,
    << "{", "\"", "i", "d", "\"", ":", "1", "}" >>,
    << "N", "o", "t", " ", "f", "o", "u", "n", "d" >>,
    << "{", "\"", "i", "d", "\"", ":", "\"", "i", "n", "v", "-", "1",
       "\"", ",", "\"", "s", "t", "a", "t", "u", "s", "\"", ":", "\"",
       "p", "e", "n", "d", "i", "n", "g", "\"", "}" >>,
    << "{", "\"", "i", "n", "v", "i", "t", "a", "t", "i", "o", "n", "s",
       "\"", ":", "[", "{", "\"", "i", "d", "\"", ":", "\"", "i", "n",
       "v", "-", "1", "\"", "}", "]", "}" >> }

\* A caller invokes an operation.  The caller does one thing at a time: no
\* GenerateJWT of its own is under way.
CallOperation(name, args) ==
  /\ op.pc = "idle"
  /\ inv[1].pc \in { "idle", "returned" }
  /\ op' = [ IdleOp EXCEPT !.pc = "build", !.name = name, !.args = args ]
  /\ net' = << >>
  /\ UNCHANGED << client, now, inv >>

\* The end of an operation: it returns what OperationResult gives for the
\* return values of apiRequest.
ReturningWith(l, ret, returned) ==
  [ l EXCEPT !.pc = "returned",
             !.responseBody = ret.body,
             !.result = returned.result,
             !.err = returned.err ]

Returning(l, ret) == ReturningWith(l, ret, OperationResult(l.name, ret))

\* return nil, err
Failed(err) == [ body |-> << >>, isNil |-> TRUE, err |-> err ]

\* Lines 172-206: apiRequest builds the request, or returns an error.
Prepared(l, built) ==
  IF built.err.kind # "nil"
  THEN Returning(l, Failed(built.err))
  ELSE [ l EXCEPT !.pc = "send", !.req = built.req ]

BuildRequestFor(c, call) ==
  BuildRequest(c, call.method, call.path, call.body, call.queryParams)

PrepareRequest ==
  /\ op.pc = "build"
  /\ op' = Prepared(op, BuildRequestFor(client, ApiCall(op.name, op.args)))
  /\ UNCHANGED << client, now, inv, net >>

\* The default redirect policy of an http.Client, which has no
\* CheckRedirect: Do stops after 10 consecutive requests.
RedirectLimit == 10

\* Line 209, c.httpClient.Do(req), under way: the server has answered a
\* request with a redirect (301, 302, 303, 307 or 308 and a Location), and
\* the HTTP client, within the limit of its policy, goes on with a request
\* to that location.  op.sent counts the requests the HTTP client has sent.
FollowRedirect ==
  /\ op.pc = "send"
  /\ op.sent + 1 < RedirectLimit
  /\ op' = [ op EXCEPT !.sent = op.sent + 1 ]
  /\ UNCHANGED << client, now, inv, net >>

\* Lines 208-213: c.httpClient.Do(req).  The HTTP client sends its last
\* request and returns an error, or a response with some status code.
Do ==
  /\ op.pc = "send"
  /\ net' = Append(net, op.req)
  /\ \/ op' = Returning([ op EXCEPT !.sent = op.sent + 1 ],
                        Failed(Errorf("request failed")))
     \/ \E code \in StatusCodes :
          op' = [ op EXCEPT !.pc = "read",
                            !.sent = op.sent + 1,
                            !.resp = [ StatusCode |-> code,
                                       Status |-> Status(code),
                                       Body |-> << >> ] ]
  /\ UNCHANGED << client, now, inv >>

\* Lines 215-236 and the rest of the operation: io.ReadAll(resp.Body)
\* fails, or gives the body, and the operation returns.
ReadAll ==
  /\ op.pc = "read"
  /\ \/ op' = Returning(op, Failed(Errorf("failed to read response body")))
     \/ \E body \in Bodies :
          op' = Returning([ op EXCEPT !.resp.Body = body ],
                          ResponseResult(op.resp.StatusCode, body))
  /\ UNCHANGED << client, now, inv, net >>

\* The caller has taken the result; the locals are gone.
ReturnOperation ==
  /\ op.pc = "returned"
  /\ op' = IdleOp
  /\ net' = << >>
  /\ UNCHANGED << client, now, inv >>

\* A user and the extra maps of the GenerateJWT calls made between the
\* operations.
HTTPUsers == { UserOf(<< "u", "1" >>, << "a", "@", "b" >>, NilSlice) }

HTTPExtras ==
  { NilMap,
    MapOf(<< << kRole, StringValue(<< "a", "d", "m", "i", "n" >>) >> >>) }

InitHTTP ==
  /\ client \in HTTPClients
  /\ now = Epoch
  /\ inv = [ p \in Procs |-> Idle ]
  /\ op = IdleOp
  /\ net = << >>

\* One caller that calls the invitation operations and GenerateJWT one
\* after the other.
NextHTTP ==
  \/ \E c \in OperationCalls : CallOperation(c[1], c[2])
  \/ PrepareRequest
  \/ FollowRedirect
  \/ Do
  \/ ReadAll
  \/ ReturnOperation
  \/ /\ op.pc = "idle"
     /\ \/ \E user \in HTTPUsers, extra \in HTTPExtras : Call(1, user, extra)
        \/ ParseKey(1)
        \/ DecodeID(1)
        \/ DeriveKey(1)
        \/ BuildEnvelope(1)
        \/ MergeExtra(1)
        \/ Encode(1)
        \/ Sign(1)
        \/ Return(1)

SpecHTTP == InitHTTP /\ [][NextHTTP]_vars

(*************************************************************************)
(* Construction                                                          *)
(*************************************************************************)

\* No Client has been constructed.
NilClient == [ isNil |-> TRUE ]

\* The API keys, the addresses, the HTTP clients and the values of
\* VORTEX_API_BASE_URL the constructors are called with.
NewCredentials ==
  PairCredentials
    \cup { << "i", "n", "v", "a", "l", "i", "d", "-", "k", "e", "y" >>,
           << >>, TestAPIKey }

NewBaseURLs == { << >>, TestServerURL, MissingSchemeURL }

NewHTTPClients == { NilHTTPClient, HTTPClientOf(0), HTTPClientOf(5) }

Environments == { Unset, SetTo(<< >>), SetTo(TestServerURL) }

\* The arguments of a constructor call, with the environment it runs in.
NewArgs(apiKey, baseURL, httpClient, env) ==
  [ apiKey |-> apiKey, baseURL |-> baseURL, httpClient |-> httpClient,
    env |-> env ]

ConstructorCalls ==
  { << "NewClient", NewArgs(k, << >>, NilHTTPClient, e) >> :
      k \in NewCredentials, e \in Environments }
  \cup { << "NewClientWithOptions", NewArgs(k, u, h, e) >> :
           k \in NewCredentials, u \in NewBaseURLs, h \in NewHTTPClients,
           e \in { SetTo(TestServerURL) } }

\* The constructor under way returns the Client.
Construct ==
  /\ op.pc = "new"
  /\ client' = IF op.name = "NewClient"
               THEN NewClient(op.args.apiKey, Getenv(op.args.env))
               ELSE NewClientWithOptions(op.args.apiKey, op.args.baseURL,
                                         op.args.httpClient)
  /\ op' = [ op EXCEPT !.pc = "made" ]
  /\ UNCHANGED << now, inv, net >>

\* A constructor has been called; no Client yet.
InitNew ==
  /\ client = NilClient
  /\ now = Epoch
  /\ inv = [ p \in Procs |-> Idle ]
  /\ op \in { [ IdleOp EXCEPT !.pc = "new", !.name = c[1], !.args = c[2] ] :
               c \in ConstructorCalls }
  /\ net = << >>

\* The construction of a Client, and the GenerateJWT calls of one caller on
\* the Client made.
NextNew ==
  \/ Construct
  \/ /\ op.pc = "made"
     /\ \/ \E user \in HTTPUsers, extra \in HTTPExtras : Call(1, user, extra)
        \/ ParseKey(1)
        \/ DecodeID(1)
        \/ DeriveKey(1)
        \/ BuildEnvelope(1)
        \/ MergeExtra(1)
        \/ Encode(1)
        \/ Sign(1)
        \/ Return(1)

SpecNew == InitNew /\ [][NextNew]_vars

(*************************************************************************)
(* Properties                                                            *)
(*************************************************************************)

\* The invocation of p has ended, by a return or by a panic.
Finished(p) == inv[p].pc \in { "returned", "panicked" }

\* The invocation of p has returned a token and a nil error.
Issued(p) == inv[p].pc = "returned" /\ inv[p].err = NoError

\* Number of '.' characters of a string.
DotCount(s) == Cardinality({ i \in 1..Len(s) : s[i] = "." })

\* A credential of three segments, the first VRTX, the second decoding to
\* 16 bytes.
WellFormed(k) ==
  LET parts == Split(k)
  IN  /\ Len(parts) = 3
      /\ parts[1] = VRTX
      /\ ~DecodeString(parts[2]).err
      /\ Len(DecodeString(parts[2]).bytes) = 16

\* An extra argument all of whose values have a JSON encoding.
Serializable(extra) ==
  \A i \in 1..Len(extra.kv) : extra.kv[i][2].kind # "chan"

\* C1: for a well-formed credential, a non-nil user and a serializable
\* extra map, GenerateJWT returns a token with exactly two '.' separators
\* whose three segments are each non-empty.
C1_ThreeNonEmptySegments ==
  \A p \in Procs :
    ( /\ Finished(p)
      /\ WellFormed(client.apiKey)
      /\ ~inv[p].user.isNil
      /\ Serializable(inv[p].extra) )
    => /\ Issued(p)
       /\ DotCount(inv[p].jwt) = 2
       /\ Len(Split(inv[p].jwt)) = 3
       /\ \A i \in 1..3 : Len(Split(inv[p].jwt)[i]) > 0

\* A token has been issued for a user with admin scopes and a non-empty
\* extra map.
C1_Witness ==
  \E p \in Procs :
    /\ Issued(p)
    /\ WellFormed(client.apiKey)
    /\ ~inv[p].user.isNil
    /\ Len(inv[p].user.AdminScopes.elems) > 0
    /\ Len(inv[p].extra.kv) > 0
    /\ Serializable(inv[p].extra)

\* C2: two invocations on the same Client with the same user, the same
\* extra map and the same clock reading return the same token and the same
\* error, whatever order each of them visited the keys of extra in.
C2_Deterministic ==
  \A p, q \in Procs :
    ( /\ inv[p].pc = "returned"
      /\ inv[q].pc = "returned"
      /\ inv[p].user = inv[q].user
      /\ inv[p].extra = inv[q].extra
      /\ inv[p].now = inv[q].now )
    => /\ inv[p].jwt = inv[q].jwt
       /\ inv[p].err = inv[q].err

\* Two invocations with the same arguments and clock reading have issued
\* a token each, after visiting the keys of extra in different orders.
C2_Witness ==
  \E p, q \in Procs :
    /\ p # q
    /\ Issued(p)
    /\ Issued(q)
    /\ inv[p].user = inv[q].user
    /\ inv[p].extra = inv[q].extra
    /\ inv[p].now = inv[q].now
    /\ Keys(inv[p].payload) # Keys(inv[q].payload)

\* C3 (as claimed): in every issued token the payload's expires is the
\* header's iat plus 3600, for every user and every extra map.
C3_ExpiresIsIatPlusLifetime ==
  \A p \in Procs :
    Issued(p) =>
      Lookup(inv[p].payload, kExpires) = IntValue(inv[p].header.IAT + 3600)

\* C4: a credential that does not hold exactly two '.' (so that its split
\* does not give three segments) makes GenerateJWT return the error
\* "invalid API key format" and no token, for every user, nil included,
\* and every extra map.
C4_MalformedCredential ==
  \A p \in Procs :
    (Finished(p) /\ DotCount(client.apiKey) # 2)
      => /\ inv[p].pc = "returned"
         /\ inv[p].err = "invalid API key format"
         /\ inv[p].jwt = << >>

\* An invocation has returned for a credential of more than three
\* segments.
C4_Witness ==
  \E p \in Procs :
    /\ inv[p].pc = "returned"
    /\ DotCount(client.apiKey) > 2
    /\ inv[p].err = "invalid API key format"

\* The characters of s before its first '.'.
FirstSegment(s) ==
  SubSeq(s, 1, (CHOOSE i \in 1..Len(s) :
                  s[i] = "." /\ \A j \in 1..(i - 1) : s[j] # ".") - 1)

\* C5: a credential of exactly three segments whose first segment is not
\* the literal VRTX makes GenerateJWT return the error "invalid API key
\* prefix" and no token, also when the second segment is a valid
\* identifier.
C5_UnrecognizedPrefix ==
  \A p \in Procs :
    ( /\ Finished(p)
      /\ DotCount(client.apiKey) = 2
      /\ FirstSegment(client.apiKey) # << "V", "R", "T", "X" >> )
      => /\ inv[p].pc = "returned"
         /\ inv[p].err = "invalid API key prefix"
         /\ inv[p].jwt = << >>

\* An invocation has returned for a credential with the prefix in lower
\* case and a valid identifier.
C5_Witness ==
  \E p \in Procs :
    /\ inv[p].pc = "returned"
    /\ DotCount(client.apiKey) = 2
    /\ FirstSegment(client.apiKey) = << "v", "r", "t", "x" >>
    /\ Split(client.apiKey)[2] = TestID
    /\ inv[p].err = "invalid API key prefix"

\* Unpadded base64url text (RFC 4648, section 5): characters of the URL
\* alphabet only, and not a single character left over after the groups
\* of four.
ValidBase64URL(s) ==
  /\ \A i \in 1..Len(s) : \E n \in 1..64 : encodeURL[n] = s[i]
  /\ Len(s) % 4 # 1

\* The two errors of the identifier stage.
InvalidIdentifierEncoding ==
  { "failed to decode API key ID", "failed to parse UUID from API key" }

\* C6 (as claimed): a credential of three segments with prefix VRTX whose
\* second segment is not valid unpadded base64url, or decodes to other
\* than 16 bytes, makes GenerateJWT fail with an identifier error and
\* issue no token.
C6_InvalidIdentifierEncoding ==
  \A p \in Procs :
    ( /\ Finished(p)
      /\ DotCount(client.apiKey) = 2
      /\ FirstSegment(client.apiKey) = << "V", "R", "T", "X" >>
      /\ \/ ~ValidBase64URL(Split(client.apiKey)[2])
         \/ Len(DecodeString(Split(client.apiKey)[2]).bytes) # 16 )
      => /\ inv[p].pc = "returned"
         /\ inv[p].err \in InvalidIdentifierEncoding
         /\ inv[p].jwt = << >>

\* A complete token: two '.' and three non-empty segments.
CompleteToken(t) ==
  /\ DotCount(t) = 2
  /\ t[1] # "."
  /\ t[Len(t)] # "."
  /\ \A i \in 1..(Len(t) - 1) : ~(t[i] = "." /\ t[i + 1] = ".")

\* C7: an invocation that returns an error returns the empty string with
\* it, and one that returns a nil error returns a complete token.
C7_NoPartialToken ==
  \A p \in Procs :
    inv[p].pc = "returned"
      => IF inv[p].err # NoError
         THEN inv[p].jwt = << >>
         ELSE CompleteToken(inv[p].jwt)

\* An invocation has failed at the serialization of the payload, after
\* the header was serialized.
C7_Witness ==
  \E p \in Procs :
    /\ inv[p].pc = "returned"
    /\ inv[p].err = "failed to marshal JWT payload"
    /\ inv[p].headerJSON # << >>
    /\ inv[p].jwt = << >>


\* C8: in an issued token h.p.s, h and p are the unpadded base64url
\* encodings of the serialized header and payload (decoding them gives the
\* serialized bytes back), and s is the unpadded base64url encoding of the
\* HMAC, under the derived signing key, of the text h.p as it stands in
\* the token.
C8_TokenFormat ==
  \A p \in Procs :
    Issued(p) =>
      LET seg   == Split(inv[p].jwt)
          hJSON == MarshalHeader(inv[p].header).json
          pJSON == MarshalMap(inv[p].payload).json
      IN  /\ Len(seg) = 3
          /\ \A i \in 1..3 : ValidBase64URL(seg[i])
          /\ seg[1] = EncodeToString(Bytes(hJSON))
          /\ DecodeString(seg[1]).bytes = Bytes(hJSON)
          /\ seg[2] = EncodeToString(Bytes(pJSON))
          /\ DecodeString(seg[2]).bytes = Bytes(pJSON)
          /\ Len(seg[3]) = 43
          /\ DecodeString(seg[3]).bytes =
               HMACSHA256(inv[p].signingKey,
                          Bytes(seg[1] \o << "." >> \o seg[2]))

\* A token has been issued whose payload carries admin scopes and a key
\* of extra.
C8_Witness ==
  \E p \in Procs :
    /\ Issued(p)
    /\ HasKey(inv[p].payload, kAdminScopes)
    /\ HasKey(inv[p].payload, kRole)
    /\ Len(Split(inv[p].jwt)) = 3

\* The signature segment of the token of p.
SignatureSegment(p) == Split(inv[p].jwt)[3]

\* The text the signature of the token of p covers.
SignedText(p) ==
  Split(inv[p].jwt)[1] \o << "." >> \o Split(inv[p].jwt)[2]

\* C9: the key every token is signed with is the HMAC, under the secret
\* (segment 3 of the credential), of the canonical UUID string of the
\* bytes decoded from segment 2: a value fixed by the credential, the same
\* for every user, extra map and clock reading.  The secret itself is not
\* the key of the token's signature.
C9_DerivedSigningKey ==
  \A p \in Procs :
    Issued(p) =>
      LET parts   == Split(client.apiKey)
          secret  == Bytes(parts[3])
          derived == HMACSHA256(secret,
                       Bytes(UUIDString(DecodeString(parts[2]).bytes)))
      IN  /\ inv[p].signingKey = derived
          /\ DecodeString(SignatureSegment(p)).bytes
               = HMACSHA256(derived, Bytes(SignedText(p)))
          /\ DecodeString(SignatureSegment(p)).bytes
               # HMACSHA256(secret, Bytes(SignedText(p)))

\* A token has been issued under a credential whose secret is not empty,
\* after the clock has advanced.
C9_Witness ==
  \E p \in Procs :
    /\ Issued(p)
    /\ Split(client.apiKey)[3] # << >>
    /\ inv[p].now > Epoch
    /\ Len(inv[p].extra.kv) > 0

\* Value of a lower-case hexadecimal digit, 16 for any other character.
HexValue(c) ==
  IF \E n \in 1..16 : hextable[n] = c
  THEN (CHOOSE n \in 1..16 : hextable[n] = c) - 1
  ELSE 16

\* s is the canonical text of the UUID with bytes b: 36 characters, '-'
\* at 9, 14, 19 and 24, two lower-case hexadecimal digits per byte.
CanonicalUUID(s, b) ==
  /\ Len(s) = 36
  /\ Len(b) = 16
  /\ \A i \in { 9, 14, 19, 24 } : s[i] = "-"
  /\ \A n \in 1..16 :
       LET at == 2 * n - 1 + ( IF n > 10 THEN 4 ELSE IF n > 8 THEN 3
                               ELSE IF n > 6 THEN 2 ELSE IF n > 4 THEN 1
                               ELSE 0 )
       IN  /\ HexValue(s[at]) < 16
           /\ HexValue(s[at + 1]) < 16
           /\ HexValue(s[at]) * 16 + HexValue(s[at + 1]) = b[n]

\* C10: the header of an issued token is {iat, alg, typ, kid} and nothing
\* else, with iat the clock reading of the invocation, alg "HS256", typ
\* "JWT" and kid the canonical UUID string of the bytes decoded from
\* segment 2 of the credential, whatever the user and the extra map are.
C10_Header ==
  \A p \in Procs :
    Issued(p) =>
      LET h   == inv[p].header
          id  == DecodeString(Split(client.apiKey)[2]).bytes
          txt == << "{", "\"", "i", "a", "t", "\"", ":" >>
                   \o FormatInt(inv[p].now)
                   \o << ",", "\"", "a", "l", "g", "\"", ":", "\"",
                         "H", "S", "2", "5", "6", "\"", ",",
                         "\"", "t", "y", "p", "\"", ":", "\"",
                         "J", "W", "T", "\"", ",",
                         "\"", "k", "i", "d", "\"", ":", "\"" >>
                   \o h.Kid \o << "\"", "}" >>
      IN  /\ h.IAT = inv[p].now
          /\ h.IAT >= Epoch
          /\ h.IAT <= now
          /\ h.Alg = << "H", "S", "2", "5", "6" >>
          /\ h.Typ = << "J", "W", "T" >>
          /\ CanonicalUUID(h.Kid, id)
          /\ inv[p].headerJSON = txt
          /\ DecodeString(Split(inv[p].jwt)[1]).bytes = Bytes(txt)

\* A token has been issued for the user whose ID needs escaping, with an
\* extra map that sets reserved keys.
C10_Witness ==
  \E p \in Procs :
    /\ Issued(p)
    /\ inv[p].user.ID = << "u", "\"", "<" >>
    /\ HasKey(inv[p].extra.kv, kUserId)

\* The keys the issuer writes itself.
ReservedKeys == { kUserId, kUserEmail, kExpires, kAdminScopes }

\* The value the payload holds for key k after the ordered merge of the
\* required fields, adminScopes and extra, the later overriding the
\* earlier.
MergedValue(l, k) ==
  IF ~l.extra.isNil /\ HasKey(l.extra.kv, k) THEN Lookup(l.extra.kv, k)
  ELSE IF k = kAdminScopes THEN StringsValue(l.user.AdminScopes.elems)
  ELSE IF k = kUserId THEN StringValue(l.user.ID)
  ELSE IF k = kUserEmail THEN StringValue(l.user.Email)
  ELSE IntValue(l.expires)

\* C11: the payload of an issued token is the merge of the required
\* fields, then adminScopes when the slice is not nil, then extra, the
\* later overriding the earlier: every key of extra, the reserved keys
\* userId, userEmail, expires and adminScopes included, has the value extra
\* gives it, and every other key has the value of the latest earlier layer.
C11_OrderedMerge ==
  \A p \in Procs :
    Issued(p) =>
      LET l == inv[p]
      IN  /\ \A i \in 1..Len(l.extra.kv) :
               /\ HasKey(l.payload, l.extra.kv[i][1])
               /\ Lookup(l.payload, l.extra.kv[i][1]) = l.extra.kv[i][2]
          /\ \A k \in KeySet(l.payload) :
               Lookup(l.payload, k) = MergedValue(l, k)

\* A token has been issued whose extra map gave a value to a reserved key
\* that the issuer had already written with another value.
C11_Witness ==
  \E p \in Procs :
    /\ Issued(p)
    /\ \E k \in ReservedKeys :
         /\ HasKey(inv[p].extra.kv, k)
         /\ HasKey(WithAdminScopes(RequiredFields(inv[p].user,
                                                  inv[p].expires),
                                   inv[p].user), k)
         /\ Lookup(inv[p].payload, k) = Lookup(inv[p].extra.kv, k)
         /\ Lookup(inv[p].payload, k)
              # Lookup(WithAdminScopes(RequiredFields(inv[p].user,
                                                       inv[p].expires),
                                        inv[p].user), k)

\* The payload of the token issued for the user of l at the clock reading
\* of l without an extra map.
PayloadWithoutExtra(l) ==
  WithAdminScopes(RequiredFields(l.user, Expires(l.now)), l.user)

\* C12: when no key of extra is a reserved key, the keys of the payload
\* are exactly userId, userEmail and expires, adminScopes when the user's
\* AdminScopes is not nil, and the keys of extra, each once; every value of
\* extra is in the payload as given; userId, userEmail and expires are
\* what they are in the token issued without extra; and a nil and an empty
\* extra map both give the payload of the token issued without extra.
C12_DisjointExtra ==
  \A p \in Procs :
    (Issued(p) /\ KeySet(inv[p].extra.kv) \cap ReservedKeys = {}) =>
      LET l    == inv[p]
          base == PayloadWithoutExtra(l)
      IN  /\ KeySet(l.payload)
               = { kUserId, kUserEmail, kExpires }
                 \cup (IF l.user.AdminScopes.isNil THEN {}
                       ELSE { kAdminScopes })
                 \cup KeySet(l.extra.kv)
          /\ Len(l.payload) = Cardinality(KeySet(l.payload))
          /\ \A i \in 1..Len(l.extra.kv) :
               Lookup(l.payload, l.extra.kv[i][1]) = l.extra.kv[i][2]
          /\ Lookup(l.payload, kUserId) = StringValue(l.user.ID)
          /\ Lookup(l.payload, kUserEmail) = StringValue(l.user.Email)
          /\ \A k \in KeySet(base) :
               Lookup(l.payload, k) = Lookup(base, k)
          /\ Len(l.extra.kv) = 0 =>
               /\ l.payload = base
               /\ l.payloadJSON = MarshalMap(base).json

\* A token has been issued with an extra map of two keys, neither of them
\* reserved.
C12_Witness ==
  \E p \in Procs :
    /\ Issued(p)
    /\ KeySet(inv[p].extra.kv) \cap ReservedKeys = {}
    /\ Cardinality(KeySet(inv[p].extra.kv)) = 2
    /\ KeySet(inv[p].extra.kv) \subseteq KeySet(inv[p].payload)

\* Whether text t occurs in text s.
Contains(s, t) ==
  \E i \in 1..(Len(s) - Len(t) + 1) : SubSeq(s, i, i + Len(t) - 1) = t

\* The invocation of p has issued a token and its extra map does not hold
\* the key adminScopes.
IssuedWithOwnScopes(p) ==
  Issued(p) /\ ~HasKey(inv[p].extra.kv, kAdminScopes)

\* C13 (as claimed): when the user's admin-scope list is empty, nil or
\* non-nil of length zero, and extra does not supply the key, the payload
\* of the issued token has no adminScopes key.
C13_EmptyScopesOmitted ==
  \A p \in Procs :
    (IssuedWithOwnScopes(p) /\ Len(inv[p].user.AdminScopes.elems) = 0)
      => ~HasKey(inv[p].payload, kAdminScopes)

\* C13 (amended): when extra does not supply the key, the payload of the
\* issued token has no adminScopes key exactly when the user's admin-scope
\* list is nil; a non-nil list of length zero gives the key with an empty
\* array, written "adminScopes":[] in the payload's JSON text.
C13_NilScopesOmitted ==
  \A p \in Procs :
    IssuedWithOwnScopes(p) =>
      LET l == inv[p]
      IN  /\ HasKey(l.payload, kAdminScopes) <=> ~l.user.AdminScopes.isNil
          /\ Contains(l.payloadJSON, Quote(kAdminScopes))
               <=> ~l.user.AdminScopes.isNil
          /\ (~l.user.AdminScopes.isNil
              /\ Len(l.user.AdminScopes.elems) = 0)
               => Contains(l.payloadJSON,
                           Quote(kAdminScopes) \o << ":", "[", "]" >>)

\* A token has been issued for a user whose admin-scope list is not nil
\* and has no elements, extra not supplying the key.
C13_Witness ==
  \E p \in Procs :
    /\ IssuedWithOwnScopes(p)
    /\ ~inv[p].user.AdminScopes.isNil
    /\ Len(inv[p].user.AdminScopes.elems) = 0
    /\ HasKey(inv[p].payload, kAdminScopes)

\* The state of a []string: absent (nil), empty (not nil, no elements) or
\* populated.
ScopesState(slice) ==
  IF slice.isNil THEN "absent"
  ELSE IF Len(slice.elems) = 0 THEN "empty"
  ELSE "populated"

\* The state of the admin scopes as a reader of the payload sees it.
PayloadScopesState(payload) ==
  IF ~HasKey(payload, kAdminScopes) THEN "absent"
  ELSE IF Len(Lookup(payload, kAdminScopes).list) = 0 THEN "empty"
  ELSE "populated"

\* The JSON array of a list of strings, its elements in their order.
ArrayText(l) ==
  << "[" >> \o JoinComma([ i \in 1..Len(l) |-> Quote(l[i]) ]) \o << "]" >>

\* C14: when extra does not supply the key, the three states of the
\* user's admin scopes can be told apart in the payload: nil gives no
\* adminScopes key, a non-nil list of length zero gives the key with an
\* empty array, a populated list gives the key with the elements of the
\* list in their order, none dropped and none added, in the payload and in
\* its JSON text.
C14_TriState ==
  \A p \in Procs :
    IssuedWithOwnScopes(p) =>
      LET l      == inv[p]
          scopes == l.user.AdminScopes
      IN  /\ PayloadScopesState(l.payload) = ScopesState(scopes)
          /\ ~scopes.isNil =>
               /\ Lookup(l.payload, kAdminScopes).kind = "[]string"
               /\ Lookup(l.payload, kAdminScopes).list = scopes.elems
               /\ Contains(l.payloadJSON,
                           Quote(kAdminScopes) \o << ":" >>
                             \o ArrayText(scopes.elems)
                             \o << "," >>)

\* A token has been issued for a user with two admin scopes, extra not
\* supplying the key.
C14_Witness ==
  \E p \in Procs :
    /\ IssuedWithOwnScopes(p)
    /\ Len(inv[p].user.AdminScopes.elems) = 2
    /\ PayloadScopesState(inv[p].payload) = "populated"

\* C15: with a well-formed credential and a user, GenerateJWT returns the
\* error "failed to marshal JWT payload" and no token exactly when a value
\* of extra has no JSON encoding; every extra map whose values have one is
\* issued a token, whatever the types of the values, those given to the
\* reserved keys included.
C15_SerializationError ==
  \A p \in Procs :
    ( /\ Finished(p)
      /\ WellFormed(client.apiKey)
      /\ ~inv[p].user.isNil )
    => /\ inv[p].pc = "returned"
       /\ ~Serializable(inv[p].extra) =>
            /\ inv[p].err = "failed to marshal JWT payload"
            /\ inv[p].jwt = << >>
       /\ Serializable(inv[p].extra) =>
            /\ inv[p].err = NoError
            /\ Len(inv[p].jwt) > 0

\* GenerateJWT has returned the payload's serialization error for a
\* well-formed credential.
C15_Witness ==
  \E p \in Procs :
    /\ inv[p].pc = "returned"
    /\ WellFormed(client.apiKey)
    /\ ~Serializable(inv[p].extra)
    /\ inv[p].err = "failed to marshal JWT payload"
    /\ inv[p].jwt = << >>

\* What a verifier does that repeats the steps of lines 160-166 with the
\* signing key of the credential: split the token, sign the first two
\* segments again and compare with the third.
Verify(token, signingKey) ==
  LET parts == Split(token)
  IN  /\ Len(parts) = 3
      /\ parts[3] = Signature(signingKey, ToSign(parts[1], parts[2]))

\* The characters put in the place of a character of a segment.
TamperChars == { "A" }

\* The places of a segment that are altered: its first and its last
\* character.
TamperPositions(seg) == { 1, Len(seg) } \cap (1..Len(seg))

\* Pairs of segments that differ from << h, pl >>: one character of one
\* segment replaced, a segment cut short or extended, and the boundary of
\* the two segments moved by one character.
Tampered(h, pl) ==
  ( { << [ h EXCEPT ![i] = c ], pl >> :
        i \in TamperPositions(h), c \in TamperChars }
    \cup { << h, [ pl EXCEPT ![i] = c ] >> :
             i \in TamperPositions(pl), c \in TamperChars }
    \cup { << SubSeq(h, 1, Len(h) - 1), pl >>,
           << h, pl \o << "A" >> >>,
           << h \o << pl[1] >>, Tail(pl) >>,
           << pl, h >> } )
  \ { << h, pl >> }

\* C16: for an issued token h.p.s, the verifier accepts the token as
\* issued, and every altered pair of segments h', p' gives a signed string
\* that differs from h.p and a token h'.p'.s of three segments that the
\* verifier rejects: the signature made again under the same signing key
\* over the altered segments is not s.  The digest is taken to have no
\* collision on the strings compared.
C16_TamperDetection ==
  \A p \in Procs :
    Issued(p) =>
      LET l     == inv[p]
          parts == Split(l.jwt)
      IN  /\ Len(parts) = 3
          /\ Verify(l.jwt, l.signingKey)
          /\ \A t \in Tampered(parts[1], parts[2]) :
               LET toSign == ToSign(t[1], t[2])
               IN  /\ toSign # ToSign(parts[1], parts[2])
                   /\ Len(Split(JoinJWT(toSign, parts[3]))) = 3
                   /\ ~Verify(JoinJWT(toSign, parts[3]), l.signingKey)

\* A token has been issued that the verifier accepts, and the token with
\* the first character of its header segment replaced is rejected.
C16_Witness ==
  \E p \in Procs :
    /\ Issued(p)
    /\ Verify(inv[p].jwt, inv[p].signingKey)
    /\ inv[p].jwt[1] # "A"
    /\ ~Verify([ inv[p].jwt EXCEPT ![1] = "A" ], inv[p].signingKey)

\* Lines 139-144 run to their end: the pairs of extra from the i-th on
\* assigned to the payload.
RECURSIVE MergeAll(_, _, _)
MergeAll(payload, kv, i) ==
  IF i > Len(kv) THEN payload
  ELSE MergeAll(MapAssign(payload, kv[i][1], kv[i][2]), kv, i + 1)

\* What GenerateJWT(user, extra) returns on a Client with the given API key
\* when it runs from its first line to its return with nothing else
\* running, the clock reading t.
SoloResult(apiKey, user, extra, t) ==
  LET parts == Split(apiKey)
      perr  == ParseError(parts)
      dec   == DecodeString(parts[2])
      u     == FromBytes(dec.bytes)
      hj    == MarshalHeader(Header(t, u.uuid))
      pj    == MarshalMap(MergeAll(WithAdminScopes(
                                     RequiredFields(user, Expires(t)), user),
                                   extra.kv, 1))
      toSign == ToSign(EncodeToString(Bytes(hj.json)),
                       EncodeToString(Bytes(pj.json)))
  IN  IF perr # NoError THEN [ jwt |-> << >>, err |-> perr ]
      ELSE IF dec.err
      THEN [ jwt |-> << >>, err |-> "failed to decode API key ID" ]
      ELSE IF u.err
      THEN [ jwt |-> << >>, err |-> "failed to parse UUID from API key" ]
      ELSE IF user.isNil THEN [ jwt |-> << >>, err |-> "panic" ]
      ELSE IF pj.err
      THEN [ jwt |-> << >>, err |-> "failed to marshal JWT payload" ]
      ELSE [ jwt |-> JoinJWT(toSign,
                             Signature(SigningKey(parts[3], u.uuid), toSign)),
             err |-> NoError ]

\* C17: with the callers running GenerateJWT concurrently on one Client, in
\* every interleaving of their steps and of the clock, a step of a caller
\* changes the locals of that caller only, no step changes the Client, and
\* an invocation that returns, returns the token and the error the same
\* invocation returns when it runs alone with the same clock reading.
C17_Independent ==
  [][ /\ client' = client
      /\ \A p \in Procs :
           /\ inv'[p] # inv[p] =>
                \A q \in Procs \ {p} : inv'[q] = inv[q]
           /\ (inv[p].pc # "returned" /\ inv'[p].pc = "returned") =>
                [ jwt |-> inv'[p].jwt, err |-> inv'[p].err ]
                  = SoloResult(client.apiKey, inv'[p].user, inv'[p].extra,
                               inv'[p].now) ]_vars

\* A caller has been issued a token by an invocation that ran from its
\* clock reading to its return while the invocation of the other caller,
\* with other arguments and an earlier clock reading, was under way.
C17_Witness ==
  \E p, q \in Procs :
    /\ p # q
    /\ inv[p].pc = "sign"
    /\ Issued(q)
    /\ inv[p].now < inv[q].now
    /\ inv[p].extra # inv[q].extra
    /\ inv[p].user # inv[q].user
    /\ [ jwt |-> inv[q].jwt, err |-> inv[q].err ]
         = SoloResult(client.apiKey, inv[q].user, inv[q].extra, inv[q].now)

\* The operation under way has returned after apiRequest had read the
\* body of a response.
ResponseRead ==
  /\ op.pc = "returned"
  /\ op.resp.StatusCode # 0
  /\ op.err.msg # "failed to read response body"

CarriesHeaders(req, apiKey) ==
  /\ HeaderGet(req.Header, << "x", "-", "a", "p", "i", "-", "k", "e", "y" >>)
       = apiKey
  /\ HeaderGet(req.Header,
               << "C", "o", "n", "t", "e", "n", "t", "-", "T", "y", "p",
                  "e" >>)
       = ContentTypeJSON
  /\ HeaderGet(req.Header,
               << "U", "s", "e", "r", "-", "A", "g", "e", "n", "t" >>)
       = userAgent

\* C19: no call changes the apiKey the Client was constructed with, a
\* failed GenerateJWT included, and every request an invitation operation
\* gives to the HTTP client, with a body or without one, carries x-api-key
\* equal to that apiKey, Content-Type "application/json" and the User-Agent
\* of the SDK.
C19_RequestHeaders ==
  [][ /\ client' = client
      /\ \A i \in 1..Len(net') : CarriesHeaders(net'[i], client.apiKey)
      /\ op'.pc \in { "send", "read" } =>
           CarriesHeaders(op'.req, client.apiKey) ]_vars

\* A request with a body has been sent with the three headers, after a
\* GenerateJWT call of the same Client that failed.
C19_Witness ==
  /\ Len(net) = 1
  /\ op.name = "AcceptInvitations"
  /\ ~net[1].Body.isNil
  /\ net[1].ContentLength > 0
  /\ CarriesHeaders(net[1], client.apiKey)
  /\ client.apiKey = TestAPIKey
  /\ inv[1].pc = "returned"
  /\ inv[1].err # NoError

\* The operations whose path holds an identifier of the caller.
PathOperations ==
  { "GetInvitation", "RevokeInvitation", "Reinvite",
    "DeleteInvitationsByGroup", "GetInvitationsByGroup" }

\* The method and the path the operation name is to use for arguments a.
ExpectedMethod(name) ==
  IF name \in { "GetInvitation", "GetInvitationsByGroup" } THEN GET
  ELSE IF name = "Reinvite" THEN POST
  ELSE DELETE

ExpectedPath(name, a) ==
  IF name \in { "GetInvitation", "RevokeInvitation" }
  THEN InvitationsPath \o << "/" >> \o a.invitationID
  ELSE IF name = "Reinvite"
  THEN InvitationsPath \o << "/" >> \o a.invitationID
         \o << "/", "r", "e", "i", "n", "v", "i", "t", "e" >>
  ELSE ByGroupPath \o << "/" >> \o a.groupType \o << "/" >> \o a.groupID

\* The request req is for the path of the operation under way, and for
\* nothing more: no query string and no fragment.
ExactPath(req) ==
  /\ req.Method = ExpectedMethod(op.name)
  /\ req.URL.Path = ExpectedPath(op.name, op.args)
  /\ req.URL.RawQuery = << >>
  /\ ~req.URL.ForceQuery
  /\ req.URL.Fragment = << >>

\* C20: for every identifier, an operation with an identifier in its path
\* sends its request, with its method, to exactly the path made of the
\* fixed text and the identifier, with no query string; the operation does
\* not fail for its identifier before a request is made.
C20_ExactPath ==
  op.name \in PathOperations =>
    /\ \A i \in 1..Len(net) : ExactPath(net[i])
    /\ (op.pc = "returned" /\ ~Parse(client.baseURL).err) => Len(net) = 1

\* The identifiers without '?', '#' and '%'.
PlainIdentifier(id) ==
  \A i \in 1..Len(id) : id[i] \notin { "?", "#", "%" }

\* C20 for the identifiers without '?', '#' and '%': the request is made
\* and is for exactly the path of the operation.
C20_PlainIdentifiers ==
  ( /\ op.name \in PathOperations
    /\ PlainIdentifier(op.args.invitationID)
    /\ PlainIdentifier(op.args.groupID) ) =>
    /\ \A i \in 1..Len(net) : ExactPath(net[i])
    /\ (op.pc = "returned" /\ ~Parse(client.baseURL).err) => Len(net) = 1

\* GetInvitation("x?y=1") has sent a GET for the path of the identifier
\* "x" with the query string "y=1".
C20_Witness ==
  /\ Len(net) = 1
  /\ op.name = "GetInvitation"
  /\ op.args.invitationID = << "x", "?", "y", "=", "1" >>
  /\ net[1].Method = GET
  /\ net[1].URL.Path = InvitationsPath \o << "/", "x" >>
  /\ net[1].URL.RawQuery = << "y", "=", "1" >>
  /\ RequestURI(net[1].URL)
       = InvitationsPath \o << "/", "x", "?", "y", "=", "1" >>

\* The Client a constructor call is to give.
ConstructedAsAsked ==
  /\ client.apiKey = op.args.apiKey
  /\ client.baseURL =
       IF op.name = "NewClientWithOptions"
       THEN IF op.args.baseURL = << >>
            THEN << "h", "t", "t", "p", "s", ":", "/", "/", "a", "p", "i",
                    ".", "v", "o", "r", "t", "e", "x", "s", "o", "f", "t",
                    "w", "a", "r", "e", ".", "c", "o", "m" >>
            ELSE op.args.baseURL
       ELSE IF op.args.env.set /\ op.args.env.value # << >>
            THEN op.args.env.value
            ELSE << "h", "t", "t", "p", "s", ":", "/", "/", "a", "p", "i",
                    ".", "v", "o", "r", "t", "e", "x", "s", "o", "f", "t",
                    "w", "a", "r", "e", ".", "c", "o", "m" >>
  /\ client.httpClient =
       IF op.name = "NewClientWithOptions" /\ ~op.args.httpClient.isNil
       THEN op.args.httpClient
       ELSE [ isNil |-> FALSE, timeout |-> 30 ]

\* C21: a constructor returns a Client for every apiKey, a malformed one
\* included, with the apiKey as it was given; NewClientWithOptions keeps
\* the given baseURL, the default one for "", and the given HTTP client, one
\* with a timeout of 30 seconds for nil; NewClient takes the baseURL of
\* VORTEX_API_BASE_URL when it is set and not empty, the default one
\* otherwise.  The Client stays so while GenerateJWT reports the
\* malformed apiKey.
C21_Construction ==
  /\ op.pc \in { "new", "made" }
  /\ op.pc = "new" => client = NilClient /\ inv[1] = Idle
  /\ op.pc = "made" => ConstructedAsAsked

\* NewClient has returned a Client with the malformed apiKey it was given
\* and the address of the environment, and GenerateJWT has reported the
\* apiKey.
C21_Witness ==
  /\ op.pc = "made"
  /\ op.name = "NewClient"
  /\ op.args.apiKey = << "i", "n", "v", "a", "l", "i", "d", "-", "k", "e", "y" >>
  /\ client.apiKey = op.args.apiKey
  /\ client.baseURL = TestServerURL
  /\ inv[1].pc = "returned"
  /\ inv[1].err = "invalid API key format"

\* The place of a step in the order of the stages: Parse is the split of
\* the API key and the decoding of its identifier, Derive the signing key,
\* Build the header and the payload with the merge of extra, Encode+Sign
\* the serialization and the signature.
StageRank(pc) ==
  CASE pc = "idle"     -> 0
    [] pc = "parse"    -> 1
    [] pc = "decode"   -> 2
    [] pc = "derive"   -> 3
    [] pc = "build"    -> 4
    [] pc = "merge"    -> 5
    [] pc = "marshal"  -> 6
    [] pc = "sign"     -> 7
    [] OTHER           -> 8

\* The invocation has returned exactly one of a token and an error.
TokenOrError(l) ==
  /\ l.pc = "returned"
  /\ (l.err = NoError) # (l.jwt = << >>)

\* A step from the locals l to the locals m of one invocation keeps the
\* order of the stages: the next stage follows a stage that succeeded (only
\* the merge of extra takes a turn for every key), a stage that fails ends
\* the invocation with an error as its one outcome and with nothing of the
\* later stages computed, and the last stage ends it with a token as its
\* one outcome.
StageStep(l, m) ==
  \/ l.pc = "idle" /\ m.pc = "parse"
  \/ l.pc = "returned" /\ m = Idle
  \/ /\ l.pc \notin { "idle", "returned", "panicked" }
     /\ m.pc \notin { "returned", "panicked" }
     /\ \/ StageRank(m.pc) = StageRank(l.pc) + 1
        \/ l.pc = "build" /\ m.pc = "marshal"
        \/ /\ l.pc = "merge" /\ m.pc = "merge"
           /\ m.todo \subseteq l.todo /\ m.todo # l.todo
     /\ m.jwt = << >> /\ m.err = NoError
  \/ /\ l.pc \in { "parse", "decode", "marshal" }
     /\ TokenOrError(m)
     /\ m.err # NoError
     /\ m.signature = << >> /\ m.toSign = << >>
     /\ m.payloadB64 = << >> /\ m.headerB64 = << >>
     /\ l.pc # "marshal" =>
          /\ m.signingKey = << >> /\ m.header = EmptyHeader
          /\ m.payload = << >> /\ m.now = 0
  \/ /\ l.pc = "sign"
     /\ TokenOrError(m)
     /\ m.err = NoError

\* The locals l are those of an invocation under way with its next step
\* at hand: no stage waits for anything, and a turn of the merge of extra
\* has a key of extra left to take.
CanStep(l) ==
  \/ l.pc \in { "parse", "decode", "derive", "build", "marshal", "sign" }
  \/ l.pc = "merge" /\ l.todo # {}

\* The locals l are those of an invocation that has not begun, or has
\* returned a token or an error, one of the two.
AtRest(l) == l.pc = "idle" \/ TokenOrError(l)

\* C22: every step of an invocation of GenerateJWT keeps the order Parse,
\* Derive, Build, Encode+Sign, no stage runs twice and none runs after a
\* stage that failed; an invocation is at its end with a token or an
\* error, one of the two, or has its next step at hand.  As every step
\* moves the invocation forward in the order of the stages, it comes to
\* its end.
C22_StagesInOrder ==
  [][ \A p \in Procs :
        /\ inv'[p] # inv[p] => StageStep(inv[p], inv'[p])
        /\ AtRest(inv'[p]) \/ CanStep(inv'[p]) ]_vars

\* C22 for the invocations with a user.
C22_StagesInOrderWithUser ==
  [][ \A p \in Procs :
        ~inv'[p].user.isNil =>
          /\ inv'[p] # inv[p] => StageStep(inv[p], inv'[p])
          /\ AtRest(inv'[p]) \/ CanStep(inv'[p]) ]_vars

\* An invocation with a well-formed API key and no user has ended without
\* a token and without an error.
C22_Witness ==
  /\ inv[1].pc = "panicked"
  /\ inv[1].user.isNil
  /\ inv[1].signingKey # << >>
  /\ inv[1].jwt = << >> /\ inv[1].err = NoError

\* The first rule the credential k breaks, in the order of the checks:
\* the number of segments, the prefix, the encoding of the identifier
\* (unpadded base64url of 16 bytes); "none" for a credential that breaks
\* no rule.
FirstRuleBroken(k) ==
  IF DotCount(k) # 2 THEN "MalformedCredential"
  ELSE IF FirstSegment(k) # << "V", "R", "T", "X" >>
  THEN "UnrecognizedPrefix"
  ELSE IF \/ ~ValidBase64URL(Split(k)[2])
          \/ (Len(Split(k)[2]) * 6) \div 8 # 16
  THEN "InvalidIdentifierEncoding"
  ELSE "none"

\* The errors of GenerateJWT that come under an error of the taxonomy.
ErrorsOf(rule) ==
  CASE rule = "MalformedCredential" -> { "invalid API key format" }
    [] rule = "UnrecognizedPrefix"  -> { "invalid API key prefix" }
    [] rule = "InvalidIdentifierEncoding" -> InvalidIdentifierEncoding
    [] rule = "SerializationError"  -> { "failed to marshal JWT payload" }

\* The invocation l on the credential k has ended as the precedence of
\* the errors has it: with the error of the first rule the credential
\* breaks, whatever the user and extra are; with the serialization error
\* for a credential that breaks none, a user and an extra that cannot be
\* serialized.
EndsByPrecedence(l, k) ==
  IF FirstRuleBroken(k) # "none"
  THEN /\ l.pc = "returned"
       /\ l.err \in ErrorsOf(FirstRuleBroken(k))
  ELSE (~l.user.isNil /\ ~Serializable(l.extra)) =>
         /\ l.pc = "returned"
         /\ l.err \in ErrorsOf("SerializationError")

\* C23: the errors have a fixed precedence: the number of segments, then
\* the prefix, then the encoding of the identifier, then serialization;
\* an invocation reports the first rule its credential breaks only, and the
\* serialization error only for a credential that breaks none.
C23_ErrorPrecedence ==
  \A p \in Procs : Finished(p) => EndsByPrecedence(inv[p], client.apiKey)

\* An identifier without line breaks.
NoLineBreak(s) == \A i \in 1..Len(s) : s[i] \notin { "\n", "\r" }

\* C23 for the credentials without a line break in the identifier.
C23_ErrorPrecedenceNoLineBreak ==
  \A p \in Procs :
    (Finished(p) /\ (DotCount(client.apiKey) = 2
                       => NoLineBreak(Split(client.apiKey)[2])))
      => EndsByPrecedence(inv[p], client.apiKey)

\* A credential whose identifier holds a line break has passed the checks
\* of the credential, and the invocation has ended with the serialization
\* error.
C23_Witness ==
  /\ inv[1].pc = "returned"
  /\ DotCount(client.apiKey) = 2
  /\ ~NoLineBreak(Split(client.apiKey)[2])
  /\ FirstRuleBroken(client.apiKey) = "InvalidIdentifierEncoding"
  /\ ~Serializable(inv[1].extra)
  /\ inv[1].err = "failed to marshal JWT payload"

\* The invocation l on the credential k, with a user and claims that can
\* be serialized, has returned a token exactly when the credential breaks
\* none of the three rules of the parser.
AcceptedByTheRules(l, k) ==
  (l.pc = "returned" /\ ~l.user.isNil /\ Serializable(l.extra))
    => ((l.err = NoError /\ l.jwt # << >>) <=> FirstRuleBroken(k) = "none")

\* C24: acceptance is exactly the three rules of the parser: for a non-nil
\* user and serializable claims GenerateJWT returns a token if and only if
\* the credential has three segments, the first is "VRTX" and the second is
\* unpadded base64url of 16 bytes; the secret, the user's ID and email are
\* not validated.
C24_Acceptance ==
  \A p \in Procs : AcceptedByTheRules(inv[p], client.apiKey)

\* C24 for the credentials without a line break in the identifier.
C24_AcceptanceNoLineBreak ==
  \A p \in Procs :
    (DotCount(client.apiKey) = 2 => NoLineBreak(Split(client.apiKey)[2]))
      => AcceptedByTheRules(inv[p], client.apiKey)

\* A token has been issued on a credential whose identifier holds a line
\* break.
C24_Witness ==
  /\ Issued(1)
  /\ inv[1].jwt # << >>
  /\ ~inv[1].user.isNil
  /\ DotCount(client.apiKey) = 2
  /\ ~NoLineBreak(Split(client.apiKey)[2])
  /\ FirstRuleBroken(client.apiKey) = "InvalidIdentifierEncoding"

\* C25: for every input, a nil user pointer with a well-formed credential
\* included, GenerateJWT returns normally with either a token or an error;
\* no invocation ends without one of the two.
C25_AlwaysReturns ==
  \A p \in Procs : Finished(p) => TokenOrError(inv[p])

\* C25 for the invocations that do not pass a nil user together with a
\* credential that passes the three checks.
C25_ReturnsUnlessNilUser ==
  \A p \in Procs :
    (Finished(p) /\ ~(inv[p].user.isNil /\ inv[p].signingKey # << >>))
      => TokenOrError(inv[p])

\* An invocation with a nil user on a credential that breaks no rule has
\* ended without returning: the dereference of the user has panicked.
C25_Witness ==
  /\ inv[1].pc = "panicked"
  /\ inv[1].user.isNil
  /\ FirstRuleBroken(client.apiKey) = "none"
  /\ ~TokenOrError(inv[1])

\* The step leaves the arguments of the invocation l, which goes on as m,
\* as the caller passed them: the User (ID, Email, AdminScopes) and the
\* extra map (its keys and their values).
ArgumentsKept(l, m) ==
  (l.pc # "idle" /\ m.pc # "idle") =>
    /\ m.user = l.user
    /\ m.extra = l.extra

\* C26: GenerateJWT, whether it succeeds or fails, leaves the Client's
\* apiKey, baseURL and httpClient unchanged and modifies neither the
\* caller's User nor the caller's extra map, also when extra collides with
\* reserved keys.
C26_LeavesArguments ==
  [][ /\ client' = client
      /\ \A p \in Procs : ArgumentsKept(inv[p], inv'[p]) ]_vars

\* A token has been issued on an extra map that holds the reserved key
\* "expires": the payload carries the value of extra, and extra is as the
\* caller passed it.
C26_Witness ==
  /\ Issued(1)
  /\ inv[1].extra \in Extras
  /\ HasKey(inv[1].extra.kv, kExpires)
  /\ HasKey(inv[1].payload, kUserEmail)
  /\ ~HasKey(inv[1].extra.kv, kUserEmail)
  /\ Lookup(inv[1].payload, kExpires) = Lookup(inv[1].extra.kv, kExpires)
  /\ Lookup(inv[1].extra.kv, kExpires) # IntValue(inv[1].expires)

\* The operations by what they return beside the error.
DeleteOperations == { "RevokeInvitation", "DeleteInvitationsByGroup" }

ListOperations == { "GetInvitationsByTarget", "GetInvitationsByGroup" }

PointerOperations == { "GetInvitation", "AcceptInvitations", "Reinvite" }

NotFoundText == << "N", "o", "t", " ", "f", "o", "u", "n", "d" >>

\* The bodies that are not valid JSON for what the operation expects: a
\* text that is no JSON, an array where an object is expected, and, for an
\* InvitationResult, an "id" that is a number.
InvalidBodiesFor(name) ==
  IF name \in ListOperations
  THEN { NotFoundText, << "[", "]" >> }
  ELSE { NotFoundText, << "[", "]" >>,
         << "{", "\"", "i", "d", "\"", ":", "1", "}" >> }

\* The operation l has returned after the body of a successful response
\* (status below 400) has been read.
ReturnedOnSuccess(l) ==
  /\ l.pc = "returned"
  /\ l.resp # NoResponse
  /\ l.resp.StatusCode < 400
  /\ ~(l.err.kind = "error" /\ l.err.msg = "failed to read response body")

\* What the operation l returns for an empty body: a nil error, and a
\* zero-valued InvitationResult or an empty list when it has a result.
ReturnsEmpty(l) ==
  /\ l.responseBody = << "{", "}" >>
  /\ l.err = NilError
  /\ l.name \in DeleteOperations => l.result = NoResult
  /\ l.name \in PointerOperations =>
       /\ l.result.kind = "pointer"
       /\ ~l.result.isNil
       /\ l.result.invitation = ZeroInvitation
  /\ l.name \in ListOperations =>
       /\ l.result.kind = "list"
       /\ Len(l.result.list) = 0

\* What the operation l returns for a body that is not valid JSON for the
\* type it expects: an error that is no *APIError when it has a result,
\* a nil error when it has none.
ReturnsInvalid(l) ==
  IF l.name \in DeleteOperations
  THEN l.err = NilError /\ l.result = NoResult
  ELSE /\ l.err.kind = "error"
       /\ l.result.isNil

\* C27: a successful response (status < 400) with an empty body is treated
\* as the JSON object "{}": the two delete operations return a nil error,
\* GetInvitation, AcceptInvitations and Reinvite a zero-valued
\* InvitationResult with a nil error, the list operations an empty list
\* with a nil error; a non-empty body that is not valid JSON for the
\* expected type gives a non-APIError error in the operations with a
\* result and is ignored by the two delete operations.
C27_EmptyAndInvalidBodies ==
  ReturnedOnSuccess(op) =>
    /\ op.resp.Body = << >> => ReturnsEmpty(op)
    /\ op.resp.Body \in InvalidBodiesFor(op.name) => ReturnsInvalid(op)

\* Reinvite has returned a zero-valued InvitationResult and a nil error on
\* a response 204 without a body.
C27_Witness ==
  /\ ReturnedOnSuccess(op)
  /\ op.name = "Reinvite"
  /\ op.resp.StatusCode = 204
  /\ op.resp.Body = << >>
  /\ op.result = PointerTo(ZeroInvitation)
  /\ op.err = NilError

\* The errors of apiRequest for a request that could not be built.
BuildFailures ==
  { "failed to parse URL", "failed to marshal request body",
    "failed to create request" }

\* The operation l has returned for a failure to build its request.
BuildFailed(l) ==
  l.pc = "returned" /\ l.err.kind = "error" /\ l.err.msg \in BuildFailures

\* Nothing is sent once the operation has the outcome of its request: a
\* transport failure, or a response of whatever status; and a step of
\* GenerateJWT sends nothing.
NothingSentAfterwards ==
  /\ (op.pc \in { "read", "returned" } /\ op'.pc # "idle") =>
       /\ op'.sent = op.sent
       /\ net' = net
  /\ inv' # inv => (op'.sent = op.sent /\ net' = net)

\* C28: each call of an invitation operation sends at most one HTTP request
\* and never retries: after a transport failure or a response of status 400
\* or more the operation returns the error without a second request, a
\* failure to build the request returns an error with no request sent, and
\* GenerateJWT never sends any request.
C28_AtMostOneRequest ==
  [][ /\ op'.sent <= 1
      /\ BuildFailed(op') => op'.sent = 0
      /\ NothingSentAfterwards ]_vars

\* C28 for the calls of httpClient.Do in place of the requests the HTTP
\* client sends: an operation calls Do at most once, not at all when the
\* request cannot be built.
C28_AtMostOneDo ==
  [][ /\ Len(net') <= 1
      /\ op'.sent <= RedirectLimit
      /\ op'.pc \in { "read", "returned" } =>
           ((op'.sent = 0) = (Len(net') = 0))
      /\ BuildFailed(op') => (op'.sent = 0 /\ Len(net') = 0)
      /\ NothingSentAfterwards ]_vars

\* An operation has returned the *APIError of a response of status 500
\* that came after a redirect: one call of Do, two requests sent.
C28_Witness ==
  /\ op.pc = "returned"
  /\ op.err.kind = "*APIError"
  /\ op.err.StatusCode = 500
  /\ Len(net) = 1
  /\ op.sent = 2

=============================================================================
